---------------------------- MODULE Spec2Model ----------------------------
(***************************************************************************)
(* A model of the routing engine and of the request pipeline of the HTTP   *)
(* server core: RouteMap / Route (src/src/core/router.rs), the segment     *)
(* trie (src/src/support/trie.rs), MapUpdates::add                         *)
(* (src/src/support/common.rs) and the request deserializer                *)
(* (src/src/core/conn.rs).                                                 *)
(*                                                                         *)
(* Strings are sequences of one-character strings, so that the character   *)
(* level work of the code (case folding, splitting, trimming) is computed  *)
(* and not assumed.  A Callback (a fn pointer) is named by the number of   *)
(* the registration call that passed it: callback i was bound by the i-th  *)
(* call, and 0 stands for Option::None.                                    *)
(***************************************************************************)
EXTENDS Integers, Sequences, FiniteSets, TLC

VARIABLES
    store,      \* Route.store: REST -> RouteMap
    auth_func,  \* Route.auth_func: "none" or the name of the installed predicate
    history,    \* the registration calls made so far, in order (observation)
    panicked,   \* a registration call has panicked: construction was aborted
    pc,         \* "setup" | "idle" | "await_route" | "done", or split_path's step
    raw,        \* the request read from the stream by parse_request
    req,        \* the Request being populated by the deserializer
    task,       \* the route-lookup closure handed to the worker pool
    chan,       \* the channel of the lookup: the receiver's state and the messages sent
    probe,      \* observation of the trie walk of the last seek_handler run
    conn,       \* the outcome of parse_request for the current connection
    rem,        \* the header/cookie/body closure handed to the pool, and its channel
    resp,       \* the Response of the current connection
    wire        \* what the connection did to the socket, and the handlers it invoked

vars == <<store, auth_func, history, panicked, pc, raw, req, task, chan, probe, conn,
          rem, resp, wire>>

(***************************************************************************)
(* Bounds of the model.                                                    *)
(***************************************************************************)
\* the number of registration calls made before the server starts serving
MaxRoutes == 3

(***************************************************************************)
(* Strings.                                                                *)
(***************************************************************************)
UpperChars == <<"A","B","C","D","E","F","G","H","I","J","K","L","M",
                "N","O","P","Q","R","S","T","U","V","W","X","Y","Z">>
LowerChars == <<"a","b","c","d","e","f","g","h","i","j","k","l","m",
                "n","o","p","q","r","s","t","u","v","w","x","y","z">>
DigitChars == <<"0","1","2","3","4","5","6","7","8","9">>

Range(s) == {s[i] : i \in DOMAIN s}

IndexIn(c, s) == IF \E i \in DOMAIN s : s[i] = c
                 THEN CHOOSE i \in DOMAIN s : s[i] = c
                 ELSE 0

\* char::to_lowercase / char::to_uppercase on the ASCII letters
LowerChar(c) == IF IndexIn(c, UpperChars) > 0 THEN LowerChars[IndexIn(c, UpperChars)] ELSE c
UpperChar(c) == IF IndexIn(c, LowerChars) > 0 THEN UpperChars[IndexIn(c, LowerChars)] ELSE c

\* str::to_lowercase, str::to_uppercase
ToLowercase(s) == [i \in DOMAIN s |-> LowerChar(s[i])]
ToUppercase(s) == [i \in DOMAIN s |-> UpperChar(s[i])]

\* char::is_alphanumeric
IsAlphanumeric(c) == c \in Range(UpperChars) \cup Range(LowerChars) \cup Range(DigitChars)

\* char::is_whitespace, for the characters the model draws
IsWhitespace(c) == c \in {" ", "\t", "\r", "\n"}

StartsWith(s, p) == Len(s) >= Len(p) /\ SubSeq(s, 1, Len(p)) = p
EndsWith(s, p) == Len(s) >= Len(p) /\ SubSeq(s, Len(s) - Len(p) + 1, Len(s)) = p

\* str::contains(pattern): pattern occurs as a substring
Contains(s, p) == \E i \in 1..(Len(s) - Len(p) + 1) : SubSeq(s, i, i + Len(p) - 1) = p

\* str::find(char): the position (1-based) of the first occurrence, 0 for None
FindChar(s, c) == IF \E i \in DOMAIN s : s[i] = c
                  THEN CHOOSE i \in DOMAIN s : s[i] = c /\ \A j \in 1..(i - 1) : s[j] # c
                  ELSE 0

\* str::rfind(char): the position of the last occurrence, 0 for None
RFindChar(s, c) == IF \E i \in DOMAIN s : s[i] = c
                   THEN CHOOSE i \in DOMAIN s : s[i] = c /\ \A j \in (i + 1)..Len(s) : s[j] # c
                   ELSE 0

RECURSIVE TrimStart(_)
TrimStart(s) == IF s # <<>> /\ IsWhitespace(Head(s)) THEN TrimStart(Tail(s)) ELSE s

RECURSIVE TrimEnd(_)
TrimEnd(s) == IF s # <<>> /\ IsWhitespace(s[Len(s)]) THEN TrimEnd(SubSeq(s, 1, Len(s) - 1)) ELSE s

\* str::trim
Trim(s) == TrimEnd(TrimStart(s))

RECURSIVE TrimStartChar(_, _)
TrimStartChar(s, c) == IF s # <<>> /\ Head(s) = c THEN TrimStartChar(Tail(s), c) ELSE s

RECURSIVE TrimEndChar(_, _)
TrimEndChar(s, c) ==
    IF s # <<>> /\ s[Len(s)] = c THEN TrimEndChar(SubSeq(s, 1, Len(s) - 1), c) ELSE s

\* str::trim_matches(char)
TrimMatches(s, c) == TrimEndChar(TrimStartChar(s, c), c)

\* str::split(char): the pieces between the occurrences of c, empty pieces kept
RECURSIVE SplitChar(_, _)
SplitChar(s, c) ==
    LET p == FindChar(s, c)
    IN  IF p = 0 THEN <<s>>
        ELSE <<SubSeq(s, 1, p - 1)>> \o SplitChar(SubSeq(s, p + 1, Len(s)), c)

\* str::splitn(2, char): split at the first occurrence only
SplitN2(s, c) ==
    LET p == FindChar(s, c)
    IN  IF p = 0 THEN <<s>> ELSE <<SubSeq(s, 1, p - 1), SubSeq(s, p + 1, Len(s))>>

\* str::rsplitn(2, char): split at the last occurrence only; the piece after
\* the separator comes first
RSplitN2(s, c) ==
    LET p == RFindChar(s, c)
    IN  IF p = 0 THEN <<s>> ELSE <<SubSeq(s, p + 1, Len(s)), SubSeq(s, 1, p - 1)>>

(***************************************************************************)
(* Regular expressions (crate regex).  The model draws two kinds of        *)
(* pattern text: a text of alphanumeric characters, which compiles and     *)
(* matches every string that contains it (is_match searches, it does not   *)
(* anchor), and a text with an unclosed group, which does not compile.     *)
(***************************************************************************)
RECURSIVE ParenDepth(_, _)
ParenDepth(p, d) ==
    IF p = <<>> THEN d
    ELSE IF d < 0 THEN d
    ELSE ParenDepth(Tail(p), IF Head(p) = "(" THEN d + 1
                             ELSE IF Head(p) = ")" THEN d - 1 ELSE d)

\* Regex::new(p).is_ok()
RegexNewOk(p) == ParenDepth(p, 0) = 0

\* Regex::is_match
RegexIsMatch(re, s) == Contains(s, re)


(***************************************************************************)
(* Field and RouteMap::params_parser.                                      *)
(***************************************************************************)
\* Field::new; validation is the pattern text of the compiled regex, <<>> for None
Field(name, is_param, validation) ==
    [name |-> name, is_param |-> is_param, validation |-> validation]

\* the automaton without the status of a regex: every '/' after a parameter's
\* name splits
SplitStatusStepEverySlash(st, c) ==
    IF st.panic THEN st
    ELSE IF c = ":" /\ st.status = 1 THEN [st EXCEPT !.status = 2, !.cur = Append(@, c)]
    ELSE IF c = "(" /\ st.status = 2 THEN [st EXCEPT !.status = 4, !.cur = Append(@, c)]
    ELSE IF c = ")" /\ st.status = 4 THEN [st EXCEPT !.status = 8, !.cur = Append(@, c)]
    ELSE IF c = "/" /\ st.status \in {0, 2, 4, 8}
         THEN [st EXCEPT !.status = 1, !.pieces = Append(@, st.cur), !.cur = <<>>]
    ELSE IF c = "/" /\ st.status = 1 THEN [st EXCEPT !.panic = TRUE]
    ELSE IF st.status = 2 /\ ~IsAlphanumeric(c) THEN [st EXCEPT !.panic = TRUE]
    ELSE IF st.status = 8 THEN [st EXCEPT !.panic = TRUE]
    ELSE IF st.status = 1 THEN [st EXCEPT !.status = 0, !.cur = Append(@, c)]
    ELSE [st EXCEPT !.cur = Append(@, c)]

\* The split-status automaton of params_parser, one character at a time.
\* st.status: 0 normal, 1 just split, 2 in a parameter name, 4 in a
\* parameter's regex, 8 the regex has just ended.  st.cur is the piece being
\* collected, st.pieces the pieces already split off.
SplitStatusStep(st, c) ==
    IF st.panic THEN st
    ELSE IF c = ":" /\ st.status = 1 THEN [st EXCEPT !.status = 2, !.cur = Append(@, c)]
    ELSE IF c = "(" /\ st.status = 2 THEN [st EXCEPT !.status = 4, !.cur = Append(@, c)]
    ELSE IF c = ")" /\ st.status = 4 THEN [st EXCEPT !.status = 8, !.cur = Append(@, c)]
    ELSE IF c = "/" /\ st.status \in {0, 2, 8}
         THEN [st EXCEPT !.status = 1, !.pieces = Append(@, st.cur), !.cur = <<>>]
    ELSE IF c = "/" /\ st.status = 1 THEN [st EXCEPT !.panic = TRUE]
    ELSE IF st.status = 2 /\ ~IsAlphanumeric(c) THEN [st EXCEPT !.panic = TRUE]
    ELSE IF st.status = 8 THEN [st EXCEPT !.panic = TRUE]
    ELSE IF st.status = 1 THEN [st EXCEPT !.status = 0, !.cur = Append(@, c)]
    ELSE [st EXCEPT !.cur = Append(@, c)]

\* the automaton run over the whole text; at the end the piece being
\* collected is the last piece
RECURSIVE SplitStatusScan(_, _)
SplitStatusScan(st, s) ==
    IF s = <<>> THEN [st EXCEPT !.pieces = Append(@, st.cur)]
    ELSE SplitStatusScan(SplitStatusStep(st, Head(s)), Tail(s))

\* source_uri.split(<the automaton>)
SplitSegments(source_uri) ==
    SplitStatusScan([status |-> 0, cur |-> <<>>, pieces |-> <<>>, panic |-> FALSE], source_uri)

SegmentPanic(names) == [panic |-> TRUE, field |-> Field(<<>>, FALSE, <<>>), names |-> names]

\* the end of the filter_map closure for a parameter: the name must be new
NamedParam(name, validation, names) ==
    IF name \in names THEN SegmentPanic(names)
    ELSE [panic |-> FALSE, field |-> Field(name, TRUE, validation),
          names |-> names \cup {name}]

\* a parameter whose text ends with ')': name_split is the text without the
\* ')' split at its first '('
ParamWithRegex(name, name_split, names) ==
    IF Len(name_split) # 2 THEN NamedParam(name, <<>>, names)
    ELSE IF name_split[1] = <<>> \/ name_split[2] = <<>> THEN SegmentPanic(names)
    ELSE IF RegexNewOk(name_split[2]) THEN NamedParam(name_split[1], name_split[2], names)
    ELSE NamedParam(name, <<>>, names)

\* a piece that starts with ':'; name is the piece without the ':'
ParamSegment(name, names) ==
    IF name = <<>> THEN SegmentPanic(names)
    ELSE IF Len(name) > 1 /\ EndsWith(name, <<")">>)
    THEN ParamWithRegex(name, SplitN2(SubSeq(name, 1, Len(name) - 1), "("), names)
    ELSE NamedParam(name, <<>>, names)

\* The body of the filter_map closure for one non-empty piece s: the Field it
\* yields, or a panic.  names is param_names before the piece.
ParseSegment(s, names) ==
    IF Head(s) = ":" THEN ParamSegment(Tail(s), names)
    ELSE [panic |-> FALSE, field |-> Field(s, FALSE, <<>>), names |-> names]

\* filter_map over the pieces, in order; empty pieces yield nothing
RECURSIVE ParseSegments(_, _, _)
RECURSIVE ParseSegmentsAfter(_, _, _)
ParseSegments(pieces, names, acc) ==
    IF pieces = <<>> THEN [panic |-> FALSE, fields |-> acc]
    ELSE IF Head(pieces) = <<>> THEN ParseSegments(Tail(pieces), names, acc)
    ELSE ParseSegmentsAfter(ParseSegment(Head(pieces), names), Tail(pieces), acc)

ParseSegmentsAfter(r, pieces, acc) ==
    IF r.panic THEN [panic |-> TRUE, fields |-> <<>>]
    ELSE ParseSegments(pieces, r.names, Append(acc, r.field))

ParseSplit(sp) ==
    IF sp.panic THEN [panic |-> TRUE, fields |-> <<>>]
    ELSE ParseSegments(sp.pieces, {}, <<>>)

\* RouteMap::params_parser: the Fields of a route path in path order, or a panic
ParamsParser(source_uri) == ParseSplit(SplitSegments(source_uri))

(***************************************************************************)
(* The segment trie.  The nodes live in an arena (a sequence); node 1 is   *)
(* the root, named_children maps a name to the index of the child and      *)
(* params_children lists the indices of the parameter children in the      *)
(* order they were pushed.                                                 *)
(***************************************************************************)
NoCallback == 0

\* Node::new
Node(field, callback) ==
    [field |-> field, callback |-> callback,
     named_children |-> <<>>, params_children |-> <<>>]

\* named_children.get(name): the index of the child, 0 for None
NamedGet(node, name) ==
    IF name \in DOMAIN node.named_children THEN node.named_children[name] ELSE 0

\* RouteTrie::initialize
TrieInitialize == <<Node(Field(<<"/">>, FALSE, <<>>), NoCallback)>>

\* RouteTrie::is_empty
TrieIsEmpty(nodes) ==
    DOMAIN nodes[1].named_children = {} /\ nodes[1].params_children = <<>>

\* Node::insert, the named child exists and the segments are used up: "done,
\* update the node", or the key collision
UpdateChild(nodes, child, callback) ==
    IF callback # NoCallback /\ nodes[child].callback # NoCallback
    THEN [panic |-> TRUE, nodes |-> nodes]
    ELSE [panic |-> FALSE, nodes |-> [nodes EXCEPT ![child].callback = callback]]

\* Node::insert, the new child (built at index fresh) is put into
\* named_children or pushed onto params_children
LinkChild(built, self, head, fresh) ==
    IF built.panic THEN built
    ELSE IF ~head.is_param
    THEN [panic |-> FALSE,
          nodes |-> [built.nodes EXCEPT ![self].named_children = (head.name :> fresh) @@ @]]
    ELSE [panic |-> FALSE,
          nodes |-> [built.nodes EXCEPT ![self].params_children = Append(@, fresh)]]

\* Node::insert and Node::build_new_child.  segments.pop() takes the LAST
\* Field of the vector, so the child of a node is the segment that precedes
\* it in the route path.
RECURSIVE NodeInsert(_, _, _, _)
RECURSIVE NodeInsertHead(_, _, _, _, _)
RECURSIVE BuildNewChild(_, _, _, _)
NodeInsert(nodes, self, segments, callback) ==
    IF segments = <<>> THEN [panic |-> FALSE, nodes |-> nodes]
    ELSE NodeInsertHead(nodes, self, segments[Len(segments)],
                        SubSeq(segments, 1, Len(segments) - 1), callback)

NodeInsertHead(nodes, self, head, rest, callback) ==
    IF ~head.is_param /\ NamedGet(nodes[self], head.name) # 0
    THEN IF rest = <<>>
         THEN UpdateChild(nodes, NamedGet(nodes[self], head.name), callback)
         ELSE NodeInsert(nodes, NamedGet(nodes[self], head.name), rest, callback)
    ELSE LinkChild(BuildNewChild(nodes, head, rest, callback), self, head, Len(nodes) + 1)

BuildNewChild(nodes, field, segments, callback) ==
    IF segments = <<>>
    THEN [panic |-> FALSE, nodes |-> Append(nodes, Node(field, callback))]
    ELSE NodeInsert(Append(nodes, Node(field, NoCallback)), Len(nodes) + 1, segments, callback)

\* RouteTrie::add
TrieAdd(nodes, segments, callback) == NodeInsert(nodes, 1, segments, callback)

\* the result of a walk: the callback, the shared params vector as the walk
\* leaves it, the node that returned the callback (0 if none) and the trace
\* of the parameter children examined, each with whether its validator
\* accepted the segment
Walk(cb, params, node, trace) ==
    [cb |-> cb, params |-> params, node |-> IF cb # NoCallback THEN node ELSE 0,
     trace |-> trace]

\* the validator of a parameter node rejects the segment
Rejects(param_node, head) ==
    /\ param_node.field.validation # <<>>
    /\ ~RegexIsMatch(param_node.field.validation, head)

\* RouteTrie::recursive_find.  FindInParams is the loop over params_children
\* from its i-th element on; FindAfter is the end of the loop body, after the
\* recursive call returned: the callback, or params.pop() and the next child.
RECURSIVE RecursiveFind(_, _, _, _, _)
RECURSIVE FindInParams(_, _, _, _, _, _)
RECURSIVE FindParam(_, _, _, _, _, _, _)
RECURSIVE FindAfter(_, _, _, _, _)
\* recursive_find that goes on to the parameter children when the branch of
\* the literal child gives no handler
RecursiveFindFallsBack(nodes, root, segments, params, trace) ==
    LET child == NamedGet(nodes[root], segments[1])
        named == IF Len(segments) <= 1
                 THEN Walk(nodes[child].callback, params, child, trace)
                 ELSE RecursiveFind(nodes, child, Tail(segments), params, trace)
    IN  IF segments = <<>> THEN Walk(NoCallback, params, 0, trace)
        ELSE IF child # 0 /\ named.cb # NoCallback THEN named
        ELSE FindInParams(nodes, root, segments, params, trace, 1)

RecursiveFind(nodes, root, segments, params, trace) ==
    IF segments = <<>> THEN Walk(NoCallback, params, 0, trace)
    ELSE IF NamedGet(nodes[root], segments[1]) # 0
    THEN IF Len(segments) <= 1
         THEN Walk(nodes[NamedGet(nodes[root], segments[1])].callback, params,
                   NamedGet(nodes[root], segments[1]), trace)
         ELSE RecursiveFind(nodes, NamedGet(nodes[root], segments[1]), Tail(segments),
                            params, trace)
    ELSE FindInParams(nodes, root, segments, params, trace, 1)

FindInParams(nodes, root, segments, params, trace, i) ==
    IF i > Len(nodes[root].params_children) THEN Walk(NoCallback, params, 0, trace)
    ELSE FindParam(nodes, root, segments, params, trace, i, nodes[root].params_children[i])

FindParam(nodes, root, segments, params, trace, i, pn) ==
    IF nodes[pn].field.name = <<>>
    THEN FindInParams(nodes, root, segments, params, trace, i + 1)
    ELSE IF Rejects(nodes[pn], segments[1])
    THEN FindInParams(nodes, root, segments, params, Append(trace, <<pn, FALSE>>), i + 1)
    ELSE IF Len(segments) <= 1
    THEN Walk(nodes[pn].callback, Append(params, <<nodes[pn].field.name, segments[1]>>),
              pn, Append(trace, <<pn, TRUE>>))
    ELSE FindAfter(nodes, root, segments, i,
                   RecursiveFind(nodes, pn, Tail(segments),
                                 Append(params, <<nodes[pn].field.name, segments[1]>>),
                                 Append(trace, <<pn, TRUE>>)))

FindAfter(nodes, root, segments, i, deeper) ==
    IF deeper.cb # NoCallback THEN deeper
    ELSE FindInParams(nodes, root, segments,
                      SubSeq(deeper.params, 1, Len(deeper.params) - 1),
                      deeper.trace, i + 1)

\* RouteTrie::find
TrieFind(nodes, segments) == RecursiveFind(nodes, 1, segments, <<>>, <<>>)

(***************************************************************************)
(* MapUpdates::add, RouteMap and Route.                                    *)
(***************************************************************************)
\* MapUpdates::add on a HashMap<String, T>: the key is the lowercased field;
\* without allow_replace an existing entry is kept (entry().or_insert()).
MapAdd(map, field, value, allow_replace) ==
    LET f == ToLowercase(field)
    IN  IF field = <<>> THEN map
        ELSE IF allow_replace THEN (f :> value) @@ map
        ELSE IF f \in DOMAIN map THEN map
        ELSE (f :> value) @@ map

\* REST: the six unit variants and OTHER(String)
Rest(tag) == [tag |-> tag, token |-> <<>>]
RestOther(token) == [tag |-> "OTHER", token |-> token]
\* lazy_static ROUTE_ALL
ROUTE_ALL == RestOther(<<"*">>)

\* RequestPath
Explicit(path) == [kind |-> "Explicit", path |-> path]
ExplicitWithParams(path) == [kind |-> "ExplicitWithParams", path |-> path]
WildCard(path) == [kind |-> "WildCard", path |-> path]

\* RegexRoute::new
RegexRoute(re, handler) == [regex |-> re, handler |-> handler]

\* RouteMap::new
RouteMapNew == [explicit |-> <<>>, explicit_with_params |-> TrieInitialize, wildcard |-> <<>>]

\* self.explicit.add(req_uri, callback, false)
AddExplicit(rm, path, callback) ==
    [panic |-> FALSE, rm |-> [rm EXCEPT !.explicit = MapAdd(@, path, callback, FALSE)]]

\* the end of the ExplicitWithParams arm: the trie after the add
StoreTrie(rm, added) ==
    IF added.panic THEN [panic |-> TRUE, rm |-> rm]
    ELSE [panic |-> FALSE, rm |-> [rm EXCEPT !.explicit_with_params = added.nodes]]

\* self.explicit_with_params.add(RouteMap::params_parser(req_uri), callback)
AddParsed(rm, parsed, callback) ==
    IF parsed.panic THEN [panic |-> TRUE, rm |-> rm]
    ELSE StoreTrie(rm, TrieAdd(rm.explicit_with_params, parsed.fields, callback))

\* RouteMap::insert whose WildCard arm binds the pattern anew every time: no
\* contains_key test, and the add replaces
RouteMapInsertRebind(rm, uri, callback) ==
    IF uri.kind = "Explicit"
    THEN IF uri.path = <<>> \/ ~StartsWith(uri.path, <<"/">>)
         THEN [panic |-> TRUE, rm |-> rm]
         ELSE AddExplicit(rm, uri.path, callback)
    ELSE IF uri.kind = "WildCard"
    THEN IF uri.path = <<>> THEN [panic |-> TRUE, rm |-> rm]
         ELSE IF RegexNewOk(uri.path)
         THEN [panic |-> FALSE,
               rm |-> [rm EXCEPT !.wildcard =
                          MapAdd(@, uri.path, RegexRoute(uri.path, callback), TRUE)]]
         ELSE [panic |-> FALSE, rm |-> rm]
    ELSE IF ~Contains(uri.path, <<"/", ":">>) /\ ~Contains(uri.path, <<":", "\\">>)
    THEN AddExplicit(rm, uri.path, callback)
    ELSE AddParsed(rm, ParamsParser(uri.path), callback)

\* RouteMap::insert: the map after the call, or a panic
RouteMapInsert(rm, uri, callback) ==
    IF uri.kind = "Explicit"
    THEN IF uri.path = <<>> \/ ~StartsWith(uri.path, <<"/">>)
         THEN [panic |-> TRUE, rm |-> rm]
         ELSE AddExplicit(rm, uri.path, callback)
    ELSE IF uri.kind = "WildCard"
    THEN IF uri.path = <<>> THEN [panic |-> TRUE, rm |-> rm]
         ELSE IF uri.path \in DOMAIN rm.wildcard THEN [panic |-> FALSE, rm |-> rm]
         ELSE IF RegexNewOk(uri.path)
         THEN [panic |-> FALSE,
               rm |-> [rm EXCEPT !.wildcard =
                          MapAdd(@, uri.path, RegexRoute(uri.path, callback), FALSE)]]
         ELSE [panic |-> FALSE, rm |-> rm]
    ELSE IF ~Contains(uri.path, <<"/", ":">>) /\ ~Contains(uri.path, <<":", "\\">>)
    THEN AddExplicit(rm, uri.path, callback)
    ELSE AddParsed(rm, ParamsParser(uri.path), callback)

\* self.store.insert(method, route), unless the insert panicked (the store is
\* then as it was: the panic unwinds before anything is stored)
StoreRoute(st, method, r) ==
    IF r.panic THEN [panic |-> TRUE, store |-> st]
    ELSE [panic |-> FALSE, store |-> (method :> r.rm) @@ st]

\* Route::add_route
AddRoute(st, method, uri, callback) ==
    StoreRoute(st, method,
               RouteMapInsert(IF method \in DOMAIN st THEN st[method] ELSE RouteMapNew,
                              uri, callback))

\* the REST a registration function passes to add_route; call.api names the
\* function, call.token is other()'s method argument
CallMethod(call) ==
    CASE call.api = "get" -> Rest("GET")
      [] call.api = "patch" -> Rest("PATCH")
      [] call.api = "post" -> Rest("POST")
      [] call.api = "put" -> Rest("PUT")
      [] call.api = "delete" -> Rest("DELETE")
      [] call.api = "options" -> Rest("OPTIONS")
      [] call.api = "other" -> RestOther(ToUppercase(call.token))
      [] call.api = "all" -> RestOther(ToUppercase(<<"*">>))

\* impl Router for Route: get, patch, post, put, delete, options, other, all
RouterCall(st, call, callback) ==
    IF call.api = "other" /\ call.token = <<>> THEN [panic |-> TRUE, store |-> st]
    ELSE AddRoute(st, CallMethod(call), call.uri, callback)

\* the walk of a lookup that did not enter the trie
NoWalk == [cb |-> NoCallback, params |-> <<>>, node |-> 0, trace |-> <<>>]

\* search_wildcard_router: the handler of the first matching route in the
\* iteration order of the HashMap, which is not the order of insertion and
\* differs from one map to the next: every matching route can be the first.
SearchWildcardRouter(routes, uri) ==
    LET hits == {k \in DOMAIN routes : RegexIsMatch(routes[k].regex, uri)}
    IN  IF hits = {} THEN {NoCallback} ELSE {routes[k].handler : k \in hits}

\* search_params_router
SearchParamsRouter(route_head, uri) ==
    TrieFind(route_head, SplitChar(TrimMatches(uri, "/"), "/"))

\* params.insert(param.0, param.1) for every pair of the vector, in order
RECURSIVE InsertParams(_, _)
InsertParams(params, pairs) ==
    IF pairs = <<>> THEN params
    ELSE InsertParams((Head(pairs)[1] :> Head(pairs)[2]) @@ params, Tail(pairs))

\* RouteMap::seek_path after the trie was searched (walk is NoWalk when the
\* trie is empty or the explicit map answered): the possible results, each
\* with the tier that gave it and the trie walk made
SeekPathWith(rm, uri, params, walk) ==
    IF uri \in DOMAIN rm.explicit
    THEN {[cb |-> rm.explicit[uri], params |-> params, tier |-> "explicit", walk |-> NoWalk]}
    ELSE IF walk.cb # NoCallback
    THEN {[cb |-> walk.cb, params |-> InsertParams(params, walk.params),
           tier |-> "params", walk |-> walk]}
    ELSE IF DOMAIN rm.wildcard # {}
    THEN {[cb |-> h, params |-> params,
           tier |-> IF h = NoCallback THEN "none" ELSE "wildcard", walk |-> walk]
          : h \in SearchWildcardRouter(rm.wildcard, uri)}
    ELSE {[cb |-> NoCallback, params |-> params, tier |-> "none", walk |-> walk]}

\* seek_path with the first two tiers exchanged: the trie is searched before
\* the explicit map
SeekPathTrieFirst(rm, uri, params) ==
    LET walk == IF TrieIsEmpty(rm.explicit_with_params) THEN NoWalk
                ELSE SearchParamsRouter(rm.explicit_with_params, uri)
    IN  IF walk.cb # NoCallback
        THEN {[cb |-> walk.cb, params |-> InsertParams(params, walk.params),
               tier |-> "params", walk |-> walk]}
        ELSE SeekPathWith(rm, uri, params, walk)

\* RouteMap::seek_path
SeekPath(rm, uri, params) ==
    SeekPathWith(rm, uri, params,
                 IF uri \in DOMAIN rm.explicit \/ TrieIsEmpty(rm.explicit_with_params)
                 THEN NoWalk
                 ELSE SearchParamsRouter(rm.explicit_with_params, uri))

\* a seek_path result, with the table it came from
FromTable(r, table) ==
    [cb |-> r.cb, params |-> r.params, tier |-> r.tier, walk |-> r.walk, table |-> table]

\* seek_handler with the catch-all table consulted first, before the table
\* of the method
SeekHandlerAllFirst(st, method, uri, header_only) ==
    LET none == [cb |-> NoCallback, params |-> <<>>, tier |-> "none", walk |-> NoWalk]
        first == IF ROUTE_ALL \in DOMAIN st
                 THEN {FromTable(x, "all") : x \in SeekPath(st[ROUTE_ALL], uri, <<>>)}
                 ELSE {FromTable(none, "none")}
        second(r) == IF r.cb # NoCallback THEN {r}
                     ELSE IF method \in DOMAIN st
                     THEN {FromTable(x, "method") : x \in SeekPath(st[method], uri, r.params)}
                     ELSE IF header_only /\ Rest("GET") \in DOMAIN st
                     THEN {FromTable(x, "get") : x \in SeekPath(st[Rest("GET")], uri, r.params)}
                     ELSE {r}
    IN  UNION {second(r) : r \in first}

\* seek_handler with the GET table as the fallback of every method that has
\* no table, header-only or not
SeekHandlerGetForAll(st, method, uri, header_only) ==
    LET none == [cb |-> NoCallback, params |-> <<>>, tier |-> "none", walk |-> NoWalk]
        first == IF method \in DOMAIN st
                 THEN {FromTable(x, "method") : x \in SeekPath(st[method], uri, <<>>)}
                 ELSE IF Rest("GET") \in DOMAIN st
                 THEN {FromTable(x, "get") : x \in SeekPath(st[Rest("GET")], uri, <<>>)}
                 ELSE {FromTable(none, "none")}
        second(r) == IF r.cb = NoCallback /\ ROUTE_ALL \in DOMAIN st
                     THEN {FromTable(x, "all") : x \in SeekPath(st[ROUTE_ALL], uri, r.params)}
                     ELSE {r}
    IN  UNION {second(r) : r \in first}

\* Route::seek_handler up to the send: the possible results, each with the
\* table that was searched last
SeekHandler(st, method, uri, header_only) ==
    LET none == [cb |-> NoCallback, params |-> <<>>, tier |-> "none", walk |-> NoWalk]
        first == IF method \in DOMAIN st
                 THEN {FromTable(x, "method") : x \in SeekPath(st[method], uri, <<>>)}
                 ELSE IF header_only /\ Rest("GET") \in DOMAIN st
                 THEN {FromTable(x, "get") : x \in SeekPath(st[Rest("GET")], uri, <<>>)}
                 ELSE {FromTable(none, "none")}
        second(r) == IF r.cb = NoCallback /\ ROUTE_ALL \in DOMAIN st
                     THEN {FromTable(x, "all") : x \in SeekPath(st[ROUTE_ALL], uri, r.params)}
                     ELSE {r}
    IN  UNION {second(r) : r \in first}

(***************************************************************************)
(* The request deserializer (src/src/core/conn.rs).                        *)
(***************************************************************************)
\* the match on the upper-cased method token in deserialize_baseline: the
\* REST of the request, and whether the lookup is header-only
ParseMethod(info) ==
    LET others == ToUppercase(info)
    IN  [method |-> IF others = <<"G","E","T">> THEN Rest("GET")
                    ELSE IF others = <<"P","U","T">> THEN Rest("PUT")
                    ELSE IF others = <<"P","O","S","T">> THEN Rest("POST")
                    ELSE IF others = <<"D","E","L","E","T","E">> THEN Rest("DELETE")
                    ELSE IF others = <<"O","P","T","I","O","N","S">> THEN Rest("OPTIONS")
                    ELSE RestOther(others),
         header_only |-> others = <<"H","E","A","D","E","R">>]

\* what split_path pushes to final_uri, final_scheme and final_frag, or the
\* panic of an index out of bounds
Split(panic, uri, scheme, frag) ==
    [panic |-> panic, uri |-> uri, scheme |-> scheme, frag |-> frag]

\* str::find(c) followed by split_at(pos): the text before the character and
\* the text from the character on; the whole text and nothing when the
\* character does not occur
CutAt(s, c) ==
    IF FindChar(s, c) = 0 THEN [remains |-> s, cut |-> <<>>]
    ELSE [remains |-> SubSeq(s, 1, FindChar(s, c) - 1),
          cut |-> SubSeq(s, FindChar(s, c), Len(s))]

\* split_path's last branch with the trailing '/' left in place
SplitFinalKeepSlash(uri, uri_parts, frag, q) ==
    IF q.cut # <<>>
    THEN IF Len(uri_parts) < 2 THEN Split(TRUE, <<>>, <<>>, frag)
         ELSE Split(FALSE,
                    IF uri_parts[2] = <<>> THEN <<"/">> \o q.remains
                    ELSE uri_parts[2] \o <<"/">> \o q.remains,
                    Trim(q.cut), frag)
    ELSE Split(FALSE, uri, <<>>, frag)

\* split_path, "parse scheme out": q is the last piece cut at its '?'.  With
\* a '?', the URI is rebuilt from uri_parts[1] and the piece (uri_parts[1]
\* does not exist when the target has no '/'); without, the URI is the whole
\* trimmed target less one trailing '/'.
SplitFinal(uri, uri_parts, frag, q) ==
    IF q.cut # <<>>
    THEN IF Len(uri_parts) < 2 THEN Split(TRUE, <<>>, <<>>, frag)
         ELSE Split(FALSE,
                    IF uri_parts[2] = <<>> THEN <<"/">> \o q.remains
                    ELSE uri_parts[2] \o <<"/">> \o q.remains,
                    Trim(q.cut), frag)
    ELSE Split(FALSE,
               IF Len(uri) > 1 /\ EndsWith(uri, <<"/">>) THEN SubSeq(uri, 1, Len(uri) - 1)
               ELSE uri,
               <<>>, frag)

\* split_path, "parse fragment out": f is the last piece cut at its '#'
SplitFragment(uri, uri_parts, f) ==
    SplitFinal(uri, uri_parts, f.cut, CutAt(f.remains, "?"))

\* split_path after the trim
SplitTrimmed(uri) ==
    IF uri = <<>> THEN Split(FALSE, <<"/">>, <<>>, <<>>)
    ELSE SplitFragment(uri, RSplitN2(uri, "/"), CutAt(RSplitN2(uri, "/")[1], "#"))

\* split_path
SplitPath(full_uri) == SplitTrimmed(Trim(full_uri))

\* the authorization predicates the model installs: AuthFunc is any
\* fn(&Request, String) -> bool; these two are the constant ones
AuthAllows(f, request, route_path) == f # "deny_all"

\* the rest of parse_request with the two checks exchanged: the callback is
\* accepted before the predicate is asked
OutcomeCallbackFirst(f, request, res, timed_out) ==
    IF res # NoCallback
    THEN [err |-> "none", status |-> 0, res |-> res, invoked |-> res,
          timed_out |-> timed_out]
    ELSE IF f # "none" /\ ~AuthAllows(f, request, request.uri)
    THEN [err |-> "AccessDenied", status |-> 401, res |-> res, invoked |-> NoCallback,
          timed_out |-> timed_out]
    ELSE [err |-> "ServiceUnavailable", status |-> 404, res |-> res,
          invoked |-> NoCallback, timed_out |-> timed_out]

\* the rest of parse_request with the handler-presence check first: the
\* predicate is asked only about a request that has a handler
OutcomePresenceFirst(f, request, res, timed_out) ==
    IF res = NoCallback
    THEN [err |-> "ServiceUnavailable", status |-> 404, res |-> res,
          invoked |-> NoCallback, timed_out |-> timed_out]
    ELSE IF f # "none" /\ ~AuthAllows(f, request, request.uri)
    THEN [err |-> "AccessDenied", status |-> 401, res |-> res, invoked |-> NoCallback,
          timed_out |-> timed_out]
    ELSE [err |-> "none", status |-> 0, res |-> res, invoked |-> res,
          timed_out |-> timed_out]

\* parse_request after deserialize returned res, and the match of
\* handle_connection on its result: the outcome of the connection
Outcome(f, request, res, timed_out) ==
    IF f # "none" /\ ~AuthAllows(f, request, request.uri)
    THEN [err |-> "AccessDenied", status |-> 401, res |-> res, invoked |-> NoCallback,
          timed_out |-> timed_out]
    ELSE IF res # NoCallback
    THEN [err |-> "none", status |-> 0, res |-> res, invoked |-> res,
          timed_out |-> timed_out]
    ELSE [err |-> "ServiceUnavailable", status |-> 404, res |-> res,
          invoked |-> NoCallback, timed_out |-> timed_out]

(***************************************************************************)
(* The remainder of the request, the Response and the write path           *)
(* (src/src/core/conn.rs, Route::handle_request of router.rs).  Request    *)
(* and Response are defined in core/http.rs, which is not among the        *)
(* sources: a Response is the record of the flags the spec gives it        *)
(* (status, keep-alive, header-only, redirect target) and of its Location  *)
(* header, and its setters and getters write and read these fields.        *)
(***************************************************************************)
FLUSH_RETRY == 4

\* deserialize_headers on a line before the body: the header map after it.
\* The line is split at its first ':'; a cookie line goes to the cookie map
\* and a line without ':' or with an empty key is dropped.
HeaderLine(header, parts) ==
    IF Len(parts) < 2 THEN header
    ELSE IF Trim(parts[1]) = <<"c","o","o","k","i","e">> THEN header
    ELSE IF Trim(parts[1]) = <<>> THEN header
    ELSE MapAdd(header, Trim(parts[1]), Trim(parts[2]), TRUE)

\* cookie_parser's loop body with allow_replace: the last value of a key wins
CookiePairReplace(cookie, pair) ==
    IF Len(pair) = 2 THEN MapAdd(cookie, Trim(pair[1]), Trim(pair[2]), TRUE)
    ELSE MapAdd(cookie, Trim(pair[1]), <<>>, TRUE)

\* cookie_parser's loop body: pair is set.trim().splitn(2, "=")
CookiePair(cookie, pair) ==
    IF Len(pair) = 2 THEN MapAdd(cookie, Trim(pair[1]), Trim(pair[2]), FALSE)
    ELSE MapAdd(cookie, Trim(pair[1]), <<>>, FALSE)

\* cookie_parser's loop over cookie_body.trim().split(";")
RECURSIVE CookieSets(_, _)
CookieSets(cookie, sets) ==
    IF sets = <<>> THEN cookie
    ELSE CookieSets(CookiePair(cookie, SplitN2(Trim(Head(sets)), "=")), Tail(sets))

\* cookie_parser
CookieParser(cookie, cookie_body) ==
    IF cookie_body = <<>> THEN cookie
    ELSE CookieSets(cookie, SplitChar(Trim(cookie_body), ";"))

\* deserialize_headers on a line before the body: the cookie map after it
CookieLine(cookie, parts) ==
    IF Len(parts) = 2 /\ Trim(parts[1]) = <<"c","o","o","k","i","e">>
    THEN CookieParser(cookie, Trim(parts[2]))
    ELSE cookie

\* scheme_parser's loop body keeping only the first value of a key
SchemePairFirst(scheme_result, kv) ==
    IF Trim(kv[1]) \in DOMAIN scheme_result THEN scheme_result
    ELSE (Trim(kv[1]) :> <<IF Len(kv) = 2 THEN Trim(kv[2]) ELSE <<>> >>)
         @@ scheme_result

\* scheme_parser's loop body: kv is kv_pair.trim().splitn(2, "=")
SchemePair(scheme_result, kv) ==
    IF Trim(kv[1]) \in DOMAIN scheme_result
    THEN [scheme_result EXCEPT
            ![Trim(kv[1])] = Append(@, IF Len(kv) = 2 THEN Trim(kv[2]) ELSE <<>>)]
    ELSE (Trim(kv[1]) :> <<IF Len(kv) = 2 THEN Trim(kv[2]) ELSE <<>> >>)
         @@ scheme_result

\* scheme_parser's loop over scheme.trim().split("&")
RECURSIVE SchemePairs(_, _)
SchemePairs(scheme_result, pairs) ==
    IF pairs = <<>> THEN scheme_result
    ELSE SchemePairs(SchemePair(scheme_result, SplitN2(Trim(Head(pairs)), "=")), Tail(pairs))

\* scheme_parser
SchemeParser(scheme) == SchemePairs(<<>>, SplitChar(Trim(scheme), "&"))

\* the closure of the remainder: the lines up to the first empty one are
\* header lines, the lines after it are the body
RECURSIVE ScanRemainder(_, _, _)
ScanRemainder(lines, is_body, acc) ==
    IF lines = <<>> THEN acc
    ELSE IF Head(lines) = <<>> /\ ~is_body THEN ScanRemainder(Tail(lines), TRUE, acc)
    ELSE IF is_body
    THEN ScanRemainder(Tail(lines), TRUE, [acc EXCEPT !.body = Append(@, Head(lines))])
    ELSE ScanRemainder(Tail(lines), FALSE,
                       [acc EXCEPT !.header = HeaderLine(@, SplitN2(Trim(Head(lines)), ":")),
                                   !.cookie = CookieLine(@, SplitN2(Trim(Head(lines)), ":"))])

\* Request::write_header(key, val, allow_override): the entry goes into the
\* header map of the Request, whose keys are kept in lower case
RequestWriteHeader(request, key, val, allow_override) ==
    [request EXCEPT !.header = MapAdd(@, key, val, allow_override)]

\* Request::header(field): the value as a sequence of at most one element
RequestHeader(request, field) ==
    IF field \in DOMAIN request.header THEN <<request.header[field]>> ELSE <<>>

\* Response::new
NewResponse == [status |-> 200, keep_alive |-> FALSE, header_only |-> FALSE,
                redirect |-> <<>>, location |-> <<>>]

\* build_err_response that leaves the status of Response::new in place
BuildErrResponseNoStatus(err_status) ==
    [NewResponse EXCEPT !.keep_alive = FALSE]

\* build_err_response
BuildErrResponse(err_status) ==
    [NewResponse EXCEPT !.status = err_status, !.keep_alive = FALSE]

\* what a handler does to the response it is given: the status, the
\* redirect target and the Location header it sets (empty: it sets none)
Effect(status, redirect, location) ==
    [status |-> status, redirect |-> redirect, location |-> location]

\* callback(req, resp)
CallHandler(response, e) ==
    [response EXCEPT !.status = e.status, !.redirect = e.redirect, !.location = e.location]

\* handle_request after the callback, with the redirect target used as the
\* handler left it, no '/' put in front
SetUpRedirectAsIs(response) ==
    IF response.redirect # <<>>
    THEN [response EXCEPT !.location = response.redirect, !.status = 301]
    ELSE response

\* Route::handle_request after the callback: "if a redirect response, set up
\* as so"
SetUpRedirect(response) ==
    IF response.redirect # <<>>
    THEN [response EXCEPT
            !.location = IF StartsWith(response.redirect, <<"/">>) THEN response.redirect
                         ELSE <<"/">> \o response.redirect,
            !.status = 301]
    ELSE response

\* Route::handle_request
HandleRequest(response, e) == SetUpRedirect(CallHandler(response, e))

\* handle_response before the handler is called, with keep-alive enabled
\* whatever the request says
PrepareAlwaysKeepAlive(request, response) ==
    [response EXCEPT
        !.keep_alive = TRUE,
        !.header_only = IF request.method = RestOther(<<"H","E","A","D">>) THEN TRUE ELSE @]

\* handle_response before the handler is called: keep-alive unless the
\* request has the header connection: close, header-only for the method HEAD
PrepareResponse(request, response) ==
    [response EXCEPT
        !.keep_alive = RequestHeader(request, <<"c","o","n","n","e","c","t","i","o","n">>)
                          # << <<"c","l","o","s","e">> >>,
        !.header_only = IF request.method = RestOther(<<"H","E","A","D">>) THEN TRUE ELSE @]

\* handle_response up to write_to_stream; validate_and_update is taken to
\* leave the modelled fields alone
HandleResponse(request, e) == HandleRequest(PrepareResponse(request, NewResponse), e)

\* the handler is called: the log of the invocations after it
InvokeTwice(calls, cb, e) ==
    Append(Append(calls, [cb |-> cb, effect |-> e]), [cb |-> cb, effect |-> e])
Invoke(calls, cb, e) == Append(calls, [cb |-> cb, effect |-> e])

\* the retry loop of write_to_stream ends, never mind a flush that succeeded
FlushLoopEndsAtBound(flushes) == Len(flushes) >= FLUSH_RETRY

\* the retry loop of write_to_stream ends: retry has reached FLUSH_RETRY, or
\* the last flush_buffer returned 0
FlushLoopEnds(flushes) ==
    Len(flushes) >= FLUSH_RETRY \/ (flushes # <<>> /\ flushes[Len(flushes)])

\* the branch write_to_stream takes after the header
WritePath(response) ==
    IF response.header_only THEN "header_only"
    ELSE IF ~response.keep_alive THEN "close"
    ELSE "keep_alive"

(***************************************************************************)
(* The state after construction, and the inputs of the router.             *)
(***************************************************************************)
NoRaw == [kind |-> "none", words |-> <<>>, lines |-> <<>>]
\* Request::new, the fields the deserializer writes
NewRequest == [method |-> Rest("GET"), uri |-> <<>>, scheme |-> <<>>, fragment |-> <<>>,
               params |-> <<>>, header |-> <<>>, cookie |-> <<>>, body |-> <<>>]
NoTask == [state |-> "none", method |-> Rest("GET"), uri |-> <<>>, header_only |-> FALSE,
           log |-> FALSE]
NoProbe == [tier |-> "none", table |-> "none", walk |-> NoWalk]
\* a channel: whether the receiver is alive, and the messages sent and not
\* yet received
NoChan == [open |-> FALSE, msgs |-> <<>>]
NoConn == [err |-> "none", status |-> 0, res |-> NoCallback, invoked |-> NoCallback,
           timed_out |-> FALSE]
\* no header/cookie/body closure was dispatched
NoRem == [state |-> "none", lines |-> <<>>, open |-> FALSE, msgs |-> <<>>,
          received |-> FALSE, log |-> FALSE]
\* no Response has been built yet
NoResp == [status |-> 0, keep_alive |-> FALSE, header_only |-> FALSE,
           redirect |-> <<>>, location |-> <<>>]
\* the socket as accepted: nothing written, not shut down, handle_connection
\* has not returned (code -1)
NoWire == [path |-> "none", state |-> "open", heads |-> 0, bodies |-> 0, flushes |-> <<>>,
           shutdowns |-> 0, failed |-> FALSE, code |-> -1, calls |-> <<>>]

\* a registration call
Call(api, uri) == [api |-> api, token |-> <<>>, uri |-> uri]
CallOther(token, uri) == [api |-> "other", token |-> token, uri |-> uri]

\* the registration calls the router specification draws from
RouterCalls ==
    { Call("get", Explicit(<<"/", "a">>)),
      Call("get", Explicit(<<"/", "a", "/", "b">>)),
      Call("get", ExplicitWithParams(<<"/", "a", "/", ":", "v", "(", "1", ")">>)),
      Call("get", ExplicitWithParams(<<"/", "k", "/", ":", "q", "/", ":", "p">>)),
      Call("get", ExplicitWithParams(<<"/", ":", "r", "/", ":", "s">>)),
      Call("get", ExplicitWithParams(<<"/", ":", "a", "(", "1", ")">>)),
      Call("get", ExplicitWithParams(<<"/", ":", "c">>)),
      Call("get", WildCard(<<"a">>)),
      Call("get", WildCard(<<"b">>)),
      Call("all", Explicit(<<"/", "x">>)) }

\* the URIs and methods seek_handler is called with
RouterUris ==
    { <<"/", "a">>, <<"/", "a", "/", "b">>, <<"/", "a", "/", "1">>,
      <<"/", "1", "/", "a">>, <<"/", "x", "/", "y">>, <<"/", "x">> }

RouterLookups ==
    { <<Rest("GET"), FALSE>>, <<RestOther(<<"H","E","A","D","E","R">>), TRUE>>,
      <<Rest("POST"), FALSE>> }

InitRouter ==
    /\ store = <<>>
    /\ auth_func = "none"
    /\ history = <<>>
    /\ panicked = FALSE
    /\ pc = "setup"
    /\ raw = NoRaw
    /\ req = NewRequest
    /\ task = NoTask
    /\ chan = NoChan
    /\ probe = NoProbe
    /\ conn = NoConn
    /\ rem = NoRem
    /\ resp = NoResp
    /\ wire = NoWire

(***************************************************************************)
(* Construction: the registration calls, then the server starts serving.   *)
(***************************************************************************)
\* one call of get/patch/post/put/delete/options/other/all on the Route
Register(calls) ==
    /\ pc = "setup"
    /\ ~panicked
    /\ Len(history) < MaxRoutes
    /\ \E call \in calls :
          LET r == RouterCall(store, call, Len(history) + 1)
          IN  /\ history' = Append(history, call)
              /\ panicked' = r.panic
              /\ store' = r.store
    /\ UNCHANGED <<auth_func, pc, raw, req, task, chan, probe, conn, rem, resp, wire>>

\* the route table is complete: from here on it is only read
Listen ==
    /\ pc = "setup"
    /\ ~panicked
    /\ pc' = "idle"
    /\ UNCHANGED <<store, auth_func, history, panicked, raw, req, task, chan, probe, conn, rem, resp, wire>>

\* Route::seek_handler called with a fresh channel: the lookup, then tx.send
SeekHandlerCall(lookups, uris) ==
    /\ pc = "idle"
    /\ \E l \in lookups, uri \in uris :
          \E r \in SeekHandler(store, l[1], uri, l[2]) :
             /\ task' = [state |-> "ran", method |-> l[1], uri |-> uri, header_only |-> l[2],
                         log |-> FALSE]
             /\ chan' = [open |-> TRUE, msgs |-> <<[cb |-> r.cb, params |-> r.params]>>]
             /\ probe' = [tier |-> r.tier, table |-> r.table, walk |-> r.walk]
    /\ UNCHANGED <<store, auth_func, history, panicked, pc, raw, req, conn, rem, resp, wire>>

NextRouter ==
    \/ Register(RouterCalls)
    \/ Listen
    \/ SeekHandlerCall(RouterLookups, RouterUris)

Spec == InitRouter /\ [][NextRouter]_vars

(***************************************************************************)
(* One connection: parse_request reads the request and deserializes its    *)
(* first line, the route lookup runs on a worker of the pool, and          *)
(* deserialize waits for its answer for 128 ms.  The rest of the request   *)
(* (raw.lines: the header lines, the blank line, the body) is parsed by a  *)
(* second closure, whose answer deserialize then waits for for 8 s.        *)
(***************************************************************************)
\* the registration calls the connection specification draws from
ConnCalls ==
    { Call("get", Explicit(<<"/", "a">>)),
      Call("get", Explicit(<<"/", "a", "/", "b">>)),
      Call("post", Explicit(<<"/", "a">>)),
      Call("patch", Explicit(<<"/", "a">>)),
      Call("all", Explicit(<<"/", "a">>)) }

AuthFuncs == {"allow_all", "deny_all"}

\* what stream.read leaves in the buffer: a read error ("fail"), nothing but
\* CR and LF ("crlf"), or a request whose first line has the given words
ConnTokens ==
    { <<"G","E","T">>, <<"g","e","t">>, <<"P","O","S","T">>, <<"P","A","T","C","H">>,
      <<"p","a","t","c","h">>, <<"H","E","A","D","E","R">>, <<"H","E","A","D">> }

ConnTargets ==
    { <<"/", "a">>, <<"/", "a", "/">>, <<"/", "a", "/", "b", "/">>, <<"/", "x">> }

ConnRaws ==
    { [kind |-> "fail", words |-> <<>>, lines |-> <<>>],
      [kind |-> "crlf", words |-> <<>>, lines |-> <<>>],
      [kind |-> "request", words |-> << <<"G","E","T">> >>, lines |-> <<>>] }
    \cup { [kind |-> "request", words |-> <<t, u, <<"H","T","T","P","/","1",".","1">> >>,
            lines |-> <<>>]
           : t \in ConnTokens, u \in ConnTargets }

\* Route::set_auth_func, called while the server is set up
SetAuthFunc(funcs) ==
    /\ pc = "setup"
    /\ ~panicked
    /\ auth_func = "none"
    /\ \E f \in funcs : auth_func' = f
    /\ UNCHANGED <<store, history, panicked, pc, raw, req, task, chan, probe, conn, rem, resp, wire>>

\* deserialize on the request: deserialize_baseline on the words of the
\* first line, given the parsed method and the split target, hands the lookup
\* to the pool when the URI is not empty; the remainder, when not empty, is
\* handed to the pool as a second closure; without a lookup to wait for,
\* deserialize returns None at once and drops the receiver of the remainder;
\* the third word of the first line is written as the header HTTP_VERSION
Baseline(words, m, sp, lines) ==
    /\ req' = [(IF Len(words) >= 3 /\ ~sp.panic
                THEN RequestWriteHeader(req, <<"H","T","T","P","_","V","E","R","S","I","O","N">>,
                                        words[3], TRUE)
                ELSE req)
               EXCEPT !.method = m.method, !.uri = sp.uri,
                      !.scheme = IF sp.uri # <<>> /\ sp.scheme # <<>>
                                 THEN SchemeParser(sp.scheme) ELSE @,
                      !.fragment = IF sp.uri # <<>> THEN sp.frag ELSE @]
    /\ rem' = IF sp.panic \/ lines = <<>> THEN rem
              ELSE [state |-> "queued", lines |-> lines, open |-> sp.uri # <<>>,
                    msgs |-> <<>>, received |-> FALSE, log |-> FALSE]
    /\ IF sp.panic
       THEN /\ pc' = "done"
            /\ conn' = [NoConn EXCEPT !.err = "panic"]
            /\ UNCHANGED <<task, chan>>
       ELSE IF sp.uri # <<>>
       THEN /\ pc' = "await_route"
            /\ task' = [state |-> "queued", method |-> m.method, uri |-> sp.uri,
                        header_only |-> m.header_only, log |-> FALSE]
            /\ chan' = [open |-> TRUE, msgs |-> <<>>]
            /\ UNCHANGED conn
       ELSE /\ pc' = "done"
            /\ conn' = Outcome(auth_func, req', NoCallback, FALSE)
            /\ UNCHANGED <<task, chan>>

\* handle_connection up to the wait for the lookup: parse_request reads the
\* stream, rejects a failed read and a buffer of CR/LF, and deserializes
ParseRequest(raws) ==
    /\ pc = "idle"
    /\ \E r \in raws :
          /\ raw' = r
          /\ IF r.kind = "fail"
             THEN /\ conn' = [NoConn EXCEPT !.err = "ReadStreamFailure"]
                  /\ pc' = "done"
                  /\ UNCHANGED <<req, task, chan, rem>>
             ELSE IF r.kind = "crlf"
             THEN /\ conn' = [NoConn EXCEPT !.err = "EmptyRequest", !.status = 400]
                  /\ pc' = "done"
                  /\ UNCHANGED <<req, task, chan, rem>>
             ELSE Baseline(r.words,
                           IF r.words = <<>>
                           THEN [method |-> Rest("GET"), header_only |-> FALSE]
                           ELSE ParseMethod(r.words[1]),
                           IF Len(r.words) >= 2 THEN SplitPath(r.words[2])
                           ELSE Split(FALSE, <<>>, <<>>, <<>>),
                           r.lines)
    /\ UNCHANGED <<store, auth_func, history, panicked, probe, resp, wire>>

\* the closure whose tx.send waits for a receiver instead of failing
SeekHandlerTaskWaits ==
    /\ task.state = "queued"
    /\ chan.open
    /\ \E r \in SeekHandler(store, task.method, task.uri, task.header_only) :
          /\ probe' = [tier |-> r.tier, table |-> r.table, walk |-> r.walk]
          /\ chan' = [chan EXCEPT !.msgs = Append(@, [cb |-> r.cb, params |-> r.params])]
    /\ task' = [task EXCEPT !.state = "ran"]
    /\ UNCHANGED <<store, auth_func, history, panicked, pc, raw, req, conn, rem, resp, wire>>

\* the closure run by a worker: Route::seek_handler and its tx.send, which
\* fails when deserialize has given up and dropped the receiver; the failure
\* is handed to debug::print and the closure returns
SeekHandlerTask ==
    /\ task.state = "queued"
    /\ \E r \in SeekHandler(store, task.method, task.uri, task.header_only) :
          /\ probe' = [tier |-> r.tier, table |-> r.table, walk |-> r.walk]
          /\ chan' = IF chan.open
                     THEN [chan EXCEPT !.msgs = Append(@, [cb |-> r.cb, params |-> r.params])]
                     ELSE chan
    /\ task' = [task EXCEPT !.state = "ran", !.log = ~chan.open]
    /\ UNCHANGED <<store, auth_func, history, panicked, pc, raw, req, conn, rem, resp, wire>>

\* rx.recv_timeout returns the answer of the lookup; deserialize goes on to
\* wait for the remainder if one was dispatched, otherwise it returns and
\* the rest of parse_request follows
RecvRoute ==
    /\ pc = "await_route"
    /\ chan.msgs # <<>>
    /\ req' = IF chan.msgs[1].cb # NoCallback
              THEN [req EXCEPT !.params = chan.msgs[1].params] ELSE req
    /\ conn' = IF rem.state = "none" THEN Outcome(auth_func, req', chan.msgs[1].cb, FALSE)
               ELSE [NoConn EXCEPT !.res = chan.msgs[1].cb]
    /\ chan' = [open |-> FALSE, msgs |-> <<>>]
    /\ pc' = IF rem.state = "none" THEN "done" ELSE "await_remainder"
    /\ UNCHANGED <<store, auth_func, history, panicked, raw, task, probe, rem, resp, wire>>

\* rx.recv_timeout gives up and deserialize looks the route up itself
RecvRouteTimeoutSeeks ==
    /\ pc = "await_route"
    /\ chan.msgs = <<>>
    /\ \E r \in SeekHandler(store, task.method, task.uri, task.header_only) :
          conn' = IF rem.state = "none" THEN Outcome(auth_func, req, r.cb, TRUE)
                  ELSE [NoConn EXCEPT !.timed_out = TRUE, !.res = r.cb]
    /\ chan' = [open |-> FALSE, msgs |-> <<>>]
    /\ pc' = IF rem.state = "none" THEN "done" ELSE "await_remainder"
    /\ UNCHANGED <<store, auth_func, history, panicked, raw, req, task, probe, rem, resp, wire>>

\* rx.recv_timeout gives up: no worker has sent the answer within 128 ms
RecvRouteTimeout ==
    /\ pc = "await_route"
    /\ chan.msgs = <<>>
    /\ conn' = IF rem.state = "none" THEN Outcome(auth_func, req, NoCallback, TRUE)
               ELSE [NoConn EXCEPT !.timed_out = TRUE]
    /\ chan' = [open |-> FALSE, msgs |-> <<>>]
    /\ pc' = IF rem.state = "none" THEN "done" ELSE "await_remainder"
    /\ UNCHANGED <<store, auth_func, history, panicked, raw, req, task, probe, rem, resp, wire>>

\* the connection is over; the next one starts from a fresh Request.  The
\* closures of a connection write to nothing but their own channels, so the
\* workers are taken to run them before the next connection is looked at.
NextConnection ==
    /\ pc = "done"
    /\ task.state # "queued"
    /\ rem.state # "queued"
    /\ pc' = "idle"
    /\ raw' = NoRaw
    /\ req' = NewRequest
    /\ task' = NoTask
    /\ chan' = NoChan
    /\ probe' = NoProbe
    /\ conn' = NoConn
    /\ rem' = NoRem
    /\ resp' = NoResp
    /\ wire' = NoWire
    /\ UNCHANGED <<store, auth_func, history, panicked>>

NextConn ==
    \/ Register(ConnCalls)
    \/ SetAuthFunc(AuthFuncs)
    \/ Listen
    \/ ParseRequest(ConnRaws)
    \/ SeekHandlerTask
    \/ RecvRoute
    \/ RecvRouteTimeout
    \/ NextConnection

SpecConn == InitRouter /\ [][NextConn]_vars

(***************************************************************************)
(* The whole of handle_connection: the request with its remainder, the     *)
(* handler, and write_to_stream step by step.  Every operation on the      *)
(* socket (write, flush, try_clone, shutdown) can fail.                    *)
(***************************************************************************)
ServeCalls ==
    { Call("get", Explicit(<<"/", "a">>)),
      Call("all", Explicit(<<"/", "a">>)) }

ConnectionClose == <<"C","o","n","n","e","c","t","i","o","n",":"," ","c","l","o","s","e">>

\* the requests of the served connections: the first line, then header lines
\* and the blank line that ends them
ServeRaws ==
    { [kind |-> "fail", words |-> <<>>, lines |-> <<>>],
      [kind |-> "crlf", words |-> <<>>, lines |-> <<>>] }
    \cup { [kind |-> "request",
            words |-> <<t, <<"/", "a">>, <<"H","T","T","P","/","1",".","1">> >>,
            lines |-> l]
           : t \in { <<"G","E","T">>, <<"H","E","A","D">>, <<"H","E","A","D","E","R">>,
                     <<"P","O","S","T">> },
             l \in { << <<>> >>, <<ConnectionClose, <<>> >> } }

\* what the handlers of the model do
HandlerEffects ==
    { Effect(200, <<>>, <<>>), Effect(200, <<"x">>, <<>>), Effect(200, <<"/", "x">>, <<>>),
      Effect(301, <<>>, <<"/", "y">>) }

\* the closure of the remainder run by a worker, and its tx_remainder.send,
\* which fails when deserialize has returned; the failure is handed to
\* debug::print and the closure returns
RemainderTask ==
    /\ rem.state = "queued"
    /\ rem' = [rem EXCEPT
                 !.state = "ran",
                 !.log = ~rem.open,
                 !.msgs = IF rem.open
                          THEN Append(@, ScanRemainder(rem.lines, FALSE,
                                                       [header |-> <<>>, cookie |-> <<>>,
                                                        body |-> <<>>]))
                          ELSE @]
    /\ UNCHANGED <<store, auth_func, history, panicked, pc, raw, req, task, chan, probe,
                   conn, resp, wire>>

\* chan.recv_timeout returns the parsed remainder: set_headers, then the
\* rest of parse_request
RecvRemainder ==
    /\ pc = "await_remainder"
    /\ rem.msgs # <<>>
    /\ req' = [req EXCEPT !.header = rem.msgs[1].header, !.cookie = rem.msgs[1].cookie,
                          !.body = rem.msgs[1].body]
    /\ conn' = Outcome(auth_func, req', conn.res, conn.timed_out)
    /\ rem' = [rem EXCEPT !.open = FALSE, !.msgs = <<>>, !.received = TRUE]
    /\ pc' = "done"
    /\ UNCHANGED <<store, auth_func, history, panicked, raw, task, chan, probe, resp, wire>>

\* chan.recv_timeout gives up and the request is failed for it
RecvRemainderTimeoutFails ==
    /\ pc = "await_remainder"
    /\ rem.msgs = <<>>
    /\ conn' = Outcome(auth_func, req, NoCallback, conn.timed_out)
    /\ rem' = [rem EXCEPT !.open = FALSE]
    /\ pc' = "done"
    /\ UNCHANGED <<store, auth_func, history, panicked, raw, req, task, chan, probe,
                   resp, wire>>

\* chan.recv_timeout gives up after 8 s: the Request is left as it is
RecvRemainderTimeout ==
    /\ pc = "await_remainder"
    /\ rem.msgs = <<>>
    /\ conn' = Outcome(auth_func, req, conn.res, conn.timed_out)
    /\ rem' = [rem EXCEPT !.open = FALSE]
    /\ pc' = "done"
    /\ UNCHANGED <<store, auth_func, history, panicked, raw, req, task, chan, probe,
                   resp, wire>>

\* handle_connection on the result of parse_request: a failed read goes to
\* the shutdown, every other error to write_to_stream with the error
\* response, a callback to handle_response, which calls it
Respond(effects) ==
    /\ pc = "done"
    /\ IF conn.err = "ReadStreamFailure"
       THEN /\ wire' = [wire EXCEPT !.path = "read_failure"]
            /\ pc' = "shutdown"
            /\ UNCHANGED resp
       ELSE IF conn.err = "panic"
       THEN /\ wire' = [wire EXCEPT !.path = "panic", !.state = "dropped"]
            /\ pc' = "returned"
            /\ UNCHANGED resp
       ELSE IF conn.err # "none"
       THEN /\ resp' = BuildErrResponse(conn.status)
            /\ pc' = "write"
            /\ UNCHANGED wire
       ELSE \E e \in effects :
               /\ resp' = HandleResponse(req, e)
               /\ wire' = [wire EXCEPT !.calls = Invoke(@, conn.res, e)]
               /\ pc' = "write"
    /\ UNCHANGED <<store, auth_func, history, panicked, raw, req, task, chan, probe, conn, rem>>

\* write_to_stream: the header and the blank line, then the branch; the body
\* is written on the branch that closes
WriteHead ==
    /\ pc = "write"
    /\ \E ok \in BOOLEAN :
          wire' = [wire EXCEPT !.heads = @ + 1,
                               !.bodies = IF WritePath(resp) = "close" THEN @ + 1 ELSE @,
                               !.failed = @ \/ ~ok,
                               !.path = WritePath(resp)]
    /\ pc' = IF WritePath(resp) = "header_only" THEN "flush_only"
             ELSE IF WritePath(resp) = "close" THEN "flush_body"
             ELSE "try_clone"
    /\ UNCHANGED <<store, auth_func, history, panicked, raw, req, task, chan, probe, conn,
                   rem, resp>>

\* "If header only, we're done": return flush_buffer(&mut writer); the
\* stream is dropped when handle_connection returns
FlushOnly ==
    /\ pc = "flush_only"
    /\ \E ok \in BOOLEAN :
          wire' = [wire EXCEPT !.flushes = Append(@, ok),
                               !.failed = @ \/ ~ok,
                               !.code = IF ok THEN 0 ELSE 1,
                               !.state = "dropped"]
    /\ pc' = "returned"
    /\ UNCHANGED <<store, auth_func, history, panicked, raw, req, task, chan, probe, conn,
                   rem, resp>>

\* one round of the retry loop: flush_buffer(&mut writer)
FlushBody ==
    /\ pc = "flush_body"
    /\ \E ok \in BOOLEAN :
          /\ wire' = [wire EXCEPT !.flushes = Append(@, ok), !.failed = @ \/ ~ok]
          /\ pc' = IF FlushLoopEnds(wire'.flushes) THEN "shutdown" ELSE "flush_body"
    /\ UNCHANGED <<store, auth_func, history, panicked, raw, req, task, chan, probe, conn,
                   rem, resp>>

\* stream.try_clone() on the keep-alive branch
TryClone ==
    /\ pc = "try_clone"
    /\ \E ok \in BOOLEAN :
          /\ wire' = [wire EXCEPT !.state = IF ok THEN "streaming" ELSE @]
          /\ pc' = IF ok THEN "streaming" ELSE "shutdown"
    /\ UNCHANGED <<store, auth_func, history, panicked, raw, req, task, chan, probe, conn,
                   rem, resp>>

\* response.keep_long_conn returns: the keep-alive i/o is done
KeepLongConn ==
    /\ pc = "streaming"
    /\ pc' = "shutdown"
    /\ UNCHANGED <<store, auth_func, history, panicked, raw, req, task, chan, probe, conn,
                   rem, resp, wire>>

\* stream.shutdown(Shutdown::Both), in stream_shutdown and on a failed read,
\* and the return of handle_connection with its result
StreamShutdown ==
    /\ pc = "shutdown"
    /\ \E ok \in BOOLEAN :
          wire' = [wire EXCEPT !.shutdowns = @ + 1,
                               !.state = IF ok THEN "shutdown" ELSE "dropped",
                               !.failed = @ \/ ~ok,
                               !.code = IF ok THEN 0 ELSE 1]
    /\ pc' = "returned"
    /\ UNCHANGED <<store, auth_func, history, panicked, raw, req, task, chan, probe, conn,
                   rem, resp>>

\* handle_connection has returned; the next connection is accepted, once
\* the workers have run the closures of this one
CloseConnection ==
    /\ pc = "returned"
    /\ task.state # "queued"
    /\ rem.state # "queued"
    /\ pc' = "idle"
    /\ raw' = NoRaw
    /\ req' = NewRequest
    /\ task' = NoTask
    /\ chan' = NoChan
    /\ probe' = NoProbe
    /\ conn' = NoConn
    /\ rem' = NoRem
    /\ resp' = NoResp
    /\ wire' = NoWire
    /\ UNCHANGED <<store, auth_func, history, panicked>>

NextServe ==
    \/ Register(ServeCalls)
    \/ SetAuthFunc(AuthFuncs)
    \/ Listen
    \/ ParseRequest(ServeRaws)
    \/ SeekHandlerTask
    \/ RemainderTask
    \/ RecvRoute
    \/ RecvRouteTimeout
    \/ RecvRemainder
    \/ RecvRemainderTimeout
    \/ Respond(HandlerEffects)
    \/ WriteHead
    \/ FlushOnly
    \/ FlushBody
    \/ TryClone
    \/ KeepLongConn
    \/ StreamShutdown
    \/ CloseConnection

SpecServe == InitRouter /\ [][NextServe]_vars

(***************************************************************************)
(* HttpServer and its Route of four tables (src/src/lib.rs,                *)
(* src/src/router.rs): the registration functions of the server, and the   *)
(* handle functions of the Route, one for each method.  store is the       *)
(* Route: a map from RequestPath to Callback for each of get, post, put    *)
(* and delete.                                                             *)
(***************************************************************************)
\* RequestPath::Raw
Raw(path) == [kind |-> "Raw", path |-> path]

\* Route::new
RouteNew == [get |-> <<>>, post |-> <<>>, put |-> <<>>, delete |-> <<>>]

\* impl Router for Route: self.<table>.insert(uri, callback)
RouteInsert(route, table, uri, callback) ==
    [route EXCEPT ![table] = (uri :> callback) @@ @]

\* impl Router for HttpServer: get, put, post and delete, each of which
\* calls self.router.get(uri, callback)
HttpServerRegister(route, api, uri, callback) == RouteInsert(route, "get", uri, callback)

\* the match of seek_path on one entry of the table
PathMatches(req_path, uri) ==
    CASE req_path.kind = "Raw" -> StartsWith(req_path.path, uri)
      [] req_path.kind = "Explicit" -> req_path.path = uri
      [] OTHER -> RegexNewOk(req_path.path) /\ RegexIsMatch(req_path.path, uri)

\* handle_request_worker: seek_path returns the callback of the first entry
\* that matches in the iteration order of the HashMap, which can be any of
\* the matching entries, and the callback is called
HandleRequestWorker(routes, uri) ==
    IF \E k \in DOMAIN routes : PathMatches(k, uri)
    THEN {routes[k] : k \in {x \in DOMAIN routes : PathMatches(x, uri)}}
    ELSE {NoCallback}

\* the calls of the server's registration functions, the paths requested
\* and the handle functions of the Route (with the REST of each)
ServerCalls ==
    { Call(api, uri) : api \in {"get", "post", "put", "delete"},
                       uri \in {Explicit(<<"/", "a">>), WildCard(<<"b">>), Raw(<<"/", "c", "/", "d">>)} }

ServerPaths == { <<"/", "a">>, <<"/", "b">>, <<"/", "c">> }

ServerHandles ==
    { <<"get", Rest("GET")>>, <<"post", Rest("POST")>>, <<"put", Rest("PUT")>>,
      <<"delete", Rest("DELETE")>> }

InitServer ==
    /\ store = RouteNew
    /\ auth_func = "none"
    /\ history = <<>>
    /\ panicked = FALSE
    /\ pc = "setup"
    /\ raw = NoRaw
    /\ req = NewRequest
    /\ task = NoTask
    /\ chan = NoChan
    /\ probe = NoProbe
    /\ conn = NoConn
    /\ rem = NoRem
    /\ resp = NoResp
    /\ wire = NoWire

\* server.get / put / post / delete (uri, callback)
ServerRegister(calls) ==
    /\ pc = "setup"
    /\ Len(history) < MaxRoutes
    /\ \E call \in calls :
          /\ history' = Append(history, call)
          /\ store' = HttpServerRegister(store, call.api, call.uri, Len(history) + 1)
    /\ UNCHANGED <<auth_func, panicked, pc, raw, req, task, chan, probe, conn, rem, resp, wire>>

\* router.handle_get / handle_put / handle_post / handle_delete (req, resp)
RouteHandle(handles, paths) ==
    /\ pc = "idle"
    /\ \E h \in handles, path \in paths :
          \E cb \in HandleRequestWorker(store[h[1]], path) :
             /\ task' = [NoTask EXCEPT !.state = "ran", !.method = h[2], !.uri = path]
             /\ probe' = [NoProbe EXCEPT !.table = h[1]]
             /\ wire' = [NoWire EXCEPT !.calls = IF cb = NoCallback THEN <<>>
                                                 ELSE Invoke(<<>>, cb, Effect(200, <<>>, <<>>))]
    /\ UNCHANGED <<store, auth_func, history, panicked, pc, raw, req, chan, conn, rem, resp>>

NextServer ==
    \/ ServerRegister(ServerCalls)
    \/ Listen
    \/ RouteHandle(ServerHandles, ServerPaths)

SpecServer == InitServer /\ [][NextServer]_vars

(***************************************************************************)
(* The walk of the trie: routes whose nodes have a literal child and       *)
(* parameter children side by side, and lookups that meet them.            *)
(***************************************************************************)
TrieCalls ==
    { Call("get", ExplicitWithParams(<<"/", ":", "x", "/", "b", "/", "a">>)),
      Call("get", ExplicitWithParams(<<"/", ":", "y", "/", "a">>)),
      Call("get", ExplicitWithParams(<<"/", ":", "z", "(", "1", ")", "/", "a">>)),
      Call("get", ExplicitWithParams(<<"/", ":", "w">>)) }

TrieUris ==
    { <<"/", "a">>, <<"/", "a", "/", "b">>, <<"/", "a", "/", "1">>,
      <<"/", "a", "/", "b", "/", "c">>, <<"/", "c">>, <<"/", "c", "/", "a">> }

NextTrie ==
    \/ Register(TrieCalls)
    \/ Listen
    \/ SeekHandlerCall({<<Rest("GET"), FALSE>>}, TrieUris)

SpecTrie == InitRouter /\ [][NextTrie]_vars

(***************************************************************************)
(* handle_connection on requests that fill every part of the Request: a    *)
(* query, a fragment, a path parameter, a version, header lines, a cookie  *)
(* line and a body.  Either receive of deserialize can time out.           *)
(***************************************************************************)
PartialCalls ==
    { Call("get", ExplicitWithParams(<<"/", "a", "/", ":", "b">>)),
      Call("get", Explicit(<<"/", "a">>)),
      Call("all", Explicit(<<"/", "a">>)) }

CookieA1 == <<"c","o","o","k","i","e",":"," ","a","=","1">>

PartialRaws ==
    { [kind |-> "fail", words |-> <<>>, lines |-> <<>>],
      [kind |-> "request",
       words |-> << <<"G","E","T">>, <<"/","x","/","a","?","q","=","1","#","f">>,
                    <<"H","T","T","P","/","1",".","1">> >>,
       lines |-> <<CookieA1, ConnectionClose, <<>>, <<"b","o","d","y">> >>],
      [kind |-> "request",
       words |-> << <<"G","E","T">>, <<"/","a","?","q","=","1">> >>,
       lines |-> <<CookieA1, <<>>, <<"b","o","d","y">> >>],
      [kind |-> "request",
       words |-> << <<"H","E","A","D">>, <<"/","x">>, <<"H","T","T","P","/","1",".","1">> >>,
       lines |-> <<ConnectionClose, <<>> >>],
      [kind |-> "request",
       words |-> << <<"H","E","A","D">>, <<"/","a">>, <<"H","T","T","P","/","1",".","1">> >>,
       lines |-> <<>>],
      [kind |-> "request", words |-> << <<"G","E","T">> >>, lines |-> <<CookieA1, <<>> >>] }

NextPartial ==
    \/ Register(PartialCalls)
    \/ SetAuthFunc(AuthFuncs)
    \/ Listen
    \/ ParseRequest(PartialRaws)
    \/ SeekHandlerTask
    \/ RemainderTask
    \/ RecvRoute
    \/ RecvRouteTimeout
    \/ RecvRemainder
    \/ RecvRemainderTimeout
    \/ Respond({Effect(200, <<>>, <<>>)})
    \/ WriteHead
    \/ FlushOnly
    \/ FlushBody
    \/ TryClone
    \/ KeepLongConn
    \/ StreamShutdown
    \/ CloseConnection

SpecPartial == InitRouter /\ [][NextPartial]_vars

(***************************************************************************)
(* The closures in the pool: handle_connection on requests with a short    *)
(* remainder, where the pool hands every queued closure to a worker.       *)
(***************************************************************************)
OrphanCalls == { Call("get", Explicit(<<"/", "a">>)), Call("all", Explicit(<<"/", "a">>)) }

OrphanRaws ==
    { [kind |-> "request",
       words |-> << <<"H","E","A","D">>, <<"/","a">>, <<"H","T","T","P","/","1",".","1">> >>,
       lines |-> << <<"b">>, <<>> >>],
      [kind |-> "request", words |-> << <<"G","E","T">>, <<"/","a">> >>,
       lines |-> << <<"b">> >>],
      [kind |-> "request", words |-> << <<"G","E","T">>, <<"/","x">> >>, lines |-> <<>>],
      [kind |-> "request", words |-> << <<"G","E","T">> >>, lines |-> << <<"b">> >>] }

NextOrphans ==
    \/ Register(OrphanCalls)
    \/ Listen
    \/ ParseRequest(OrphanRaws)
    \/ SeekHandlerTask
    \/ RemainderTask
    \/ RecvRoute
    \/ RecvRouteTimeout
    \/ RecvRemainder
    \/ RecvRemainderTimeout
    \/ Respond({Effect(200, <<>>, <<>>)})
    \/ WriteHead
    \/ FlushOnly
    \/ FlushBody
    \/ TryClone
    \/ KeepLongConn
    \/ StreamShutdown
    \/ CloseConnection

SpecOrphans ==
    InitRouter /\ [][NextOrphans]_vars /\ WF_vars(SeekHandlerTask) /\ WF_vars(RemainderTask)

(***************************************************************************)
(* The keys of the route tables: registrations and lookups whose paths,    *)
(* patterns and method tokens differ in letter case, repeat, or do not     *)
(* compile.                                                                *)
(***************************************************************************)
KeyCalls ==
    { Call("get", Explicit(<<"/", "a">>)),
      Call("get", Explicit(<<"/", "A">>)),
      Call("get", ExplicitWithParams(<<"/", "B">>)),
      CallOther(<<"h","e","a","d">>, Explicit(<<"/", "a">>)),
      Call("get", WildCard(<<"a">>)),
      Call("get", WildCard(<<"A">>)),
      Call("get", WildCard(<<"(">>)),
      Call("get", Explicit(<<"a">>)) }

KeyUris == { <<"/", "a">>, <<"/", "A">>, <<"/", "B">>, <<"/", "b">> }

\* the method of the lookup is the upper-cased token of the request
KeyLookups ==
    { <<ParseMethod(<<"g","e","t">>).method, FALSE>>,
      <<ParseMethod(<<"h","e","a","d">>).method, FALSE>> }

NextKeys ==
    \/ Register(KeyCalls)
    \/ Listen
    \/ SeekHandlerCall(KeyLookups, KeyUris)

SpecKeys == InitRouter /\ [][NextKeys]_vars

(***************************************************************************)
(* RouteMap::insert of an ExplicitWithParams path alone, on every text of  *)
(* the route characters up to a length and on some longer ones.            *)
(***************************************************************************)
MaxPathLen == 5

ParamChars == {"/", ":", "a", "b", "(", ")"}

\* paths longer than MaxPathLen
LongParamTexts ==
    { <<"/", ":", "a", "/", ":", "a">>,
      <<"/", ":", "a", "/", ":", "b">>,
      <<"/", ":", "a", "/", ":", "a", "(">>,
      <<"/", ":", "a", "(", "b", ")", "/", ":", "a">>,
      <<"/", ":", "a", "(", "b", ")", "/", ":", "a", "(", "b", ")">>,
      <<"/", ":", "a", "(", "(", ")", "/", ":", "a">>,
      <<"/", ":", "a", "(", "b", "/", ":", "b">>,
      <<"/", "a", ":", "b", "/", ":", "a">>,
      <<"/", "a", "(", "b", ")", "/", ":", "a">>,
      <<"/", ":", "a", "(", "b", ")", "a">>,
      <<"/", "a", ":", "\\", "b">>,
      <<"/","r","o","o","t","/","a","p","i","/",":","T","(","a","=","[","/","]","b","d","c",")",
        "/","t","h","i","s",".","/",":","c","h","e","c","k","/">>,
      <<"/", ":", "a", "(", "b", "/", "a", ")", "/", "b", "/">>,
      <<"/", "a", "/", ":", "a", "(", "/", ")", "/", ":", "b", "(", "a", ")">>,
      <<"/", ":", "a", "(", "b", ")", ")", "/", "b">>,
      <<"a", "/", ":", "b", "(", "/", ")">>,
      <<":", "b", "(", "/", ")", "/", "a">> }

ParamTexts ==
    UNION {[1..k -> ParamChars] : k \in 0..MaxPathLen} \cup LongParamTexts

\* raw.words holds the path that is registered
InitParams ==
    /\ store = <<>>
    /\ auth_func = "none"
    /\ history = <<>>
    /\ panicked = FALSE
    /\ pc = "setup"
    /\ raw \in {[kind |-> "path", words |-> <<t>>, lines |-> <<>>] : t \in ParamTexts}
    /\ req = NewRequest
    /\ task = NoTask
    /\ chan = NoChan
    /\ probe = NoProbe
    /\ conn = NoConn
    /\ rem = NoRem
    /\ resp = NoResp
    /\ wire = NoWire

\* router.get(RequestPath::ExplicitWithParams(path), callback) on a new Route
InsertCall ==
    /\ pc = "setup"
    /\ history' = <<Call("get", ExplicitWithParams(raw.words[1]))>>
    /\ panicked' = RouterCall(store, Call("get", ExplicitWithParams(raw.words[1])), 1).panic
    /\ store' = RouterCall(store, Call("get", ExplicitWithParams(raw.words[1])), 1).store
    /\ pc' = "inserted"
    /\ UNCHANGED <<auth_func, raw, req, task, chan, probe, conn, rem, resp, wire>>

NextParams == InsertCall

SpecParams == InitParams /\ [][NextParams]_vars

\* RouteMap::params_parser(path) alone: the Fields it returns, or its panic
ParamsParserCall ==
    /\ pc = "setup"
    /\ panicked' = ParamsParser(raw.words[1]).panic
    /\ probe' = [NoProbe EXCEPT !.tier = "fields",
                                !.walk = [NoWalk EXCEPT !.trace = ParamsParser(raw.words[1]).fields]]
    /\ pc' = "parsed"
    /\ UNCHANGED <<store, auth_func, history, raw, req, task, chan, conn, rem, resp, wire>>

NextParser == ParamsParserCall

SpecParser == InitParams /\ [][NextParser]_vars

(***************************************************************************)
(* cookie_parser, scheme_parser and the header lines alone, on every text  *)
(* of their characters up to a length and on some longer ones.             *)
(***************************************************************************)
MaxTextLen == 4

CookieChars == {"a", "b", "=", ";", " ", "1"}
SchemeChars == {"x", "y", "=", "&", " ", "1"}

CookieTexts ==
    UNION {[1..k -> CookieChars] : k \in 0..MaxTextLen}
    \cup { <<"a","=","1",";"," ","b","=","2",";"," ","c">>,
           <<"a","=","1",";","a","=","2",";","b">>,
           <<"A","=","1",";","a","=","2">> }

SchemeTexts ==
    UNION {[1..k -> SchemeChars] : k \in 0..MaxTextLen}
    \cup { <<"x","=","1","&","x","=","2","&","y">>,
           <<"x","=","1","=","2","&","x">>,
           <<"X","=","1","&","x","=","2">> }

\* the header lines a request of the model has
HeaderLines ==
    { <<"C","o","o","k","i","e",":"," ","a","=","1">>,
      <<"c","o","o","k","i","e",":"," ","a","=","1",";"," ","b">>,
      <<"C","O","O","K","I","E",":","b","=","2">>,
      <<"H","o","s","t",":"," ","h",":","8">>,
      <<"h","o","s","t",":","g">>,
      <<"a">> }

\* raw holds the text that is parsed, raw.lines the header lines; a text of
\* the kind "target" is the query of the request target "/a?<text>"
InitFields ==
    /\ store = <<>>
    /\ auth_func = "none"
    /\ history = <<>>
    /\ panicked = FALSE
    /\ pc = "field"
    /\ raw \in {[kind |-> "cookie", words |-> <<t>>, lines |-> <<>>] : t \in CookieTexts}
          \cup {[kind |-> "scheme", words |-> <<t>>, lines |-> <<>>] : t \in SchemeTexts}
          \cup {[kind |-> "target", words |-> <<t>>, lines |-> <<>>] : t \in SchemeTexts}
          \cup {[kind |-> "lines", words |-> <<>>, lines |-> <<l>>] : l \in HeaderLines}
          \cup {[kind |-> "lines", words |-> <<>>, lines |-> <<l, m>>]
                : l \in HeaderLines, m \in HeaderLines}
    /\ req = NewRequest
    /\ task = NoTask
    /\ chan = NoChan
    /\ probe = NoProbe
    /\ conn = NoConn
    /\ rem = NoRem
    /\ resp = NoResp
    /\ wire = NoWire

\* cookie_parser(cookie, cookie_body) on an empty map
CookieParserCall ==
    /\ pc = "field"
    /\ raw.kind = "cookie"
    /\ req' = [req EXCEPT !.cookie = CookieParser(<<>>, raw.words[1])]
    /\ pc' = "parsed"
    /\ UNCHANGED <<store, auth_func, history, panicked, raw, task, chan, probe, conn, rem,
                   resp, wire>>

\* req.create_scheme(scheme_parser(raw_scheme))
SchemeParserCall ==
    /\ pc = "field"
    /\ raw.kind = "scheme"
    /\ req' = [req EXCEPT !.scheme = SchemeParser(raw.words[1])]
    /\ pc' = "parsed"
    /\ UNCHANGED <<store, auth_func, history, panicked, raw, task, chan, probe, conn, rem,
                   resp, wire>>

\* deserialize_baseline on the target "/a?<text>": split_path, then
\* req.create_scheme(scheme_parser(raw_scheme)) when raw_scheme is not empty
CreateSchemeCall ==
    /\ pc = "field"
    /\ raw.kind = "target"
    /\ req' = [req EXCEPT
                 !.uri = SplitPath(<<"/", "a", "?">> \o raw.words[1]).uri,
                 !.scheme = IF SplitPath(<<"/", "a", "?">> \o raw.words[1]).scheme # <<>>
                            THEN SchemeParser(SplitPath(<<"/", "a", "?">> \o raw.words[1]).scheme)
                            ELSE @]
    /\ pc' = "parsed"
    /\ UNCHANGED <<store, auth_func, history, panicked, raw, task, chan, probe, conn, rem,
                   resp, wire>>

\* the closure of the remainder on the lines, and set_headers, set_cookies
DeserializeHeadersCall ==
    /\ pc = "field"
    /\ raw.kind = "lines"
    /\ req' = [req EXCEPT
                 !.header = ScanRemainder(raw.lines, FALSE,
                                          [header |-> <<>>, cookie |-> <<>>,
                                           body |-> <<>>]).header,
                 !.cookie = ScanRemainder(raw.lines, FALSE,
                                          [header |-> <<>>, cookie |-> <<>>,
                                           body |-> <<>>]).cookie]
    /\ pc' = "parsed"
    /\ UNCHANGED <<store, auth_func, history, panicked, raw, task, chan, probe, conn, rem,
                   resp, wire>>

NextFields ==
    \/ CookieParserCall
    \/ SchemeParserCall
    \/ CreateSchemeCall
    \/ DeserializeHeadersCall

SpecFields == InitFields /\ [][NextFields]_vars

(***************************************************************************)
(* parse_request from the bytes of the stream: the buffer the read fills,  *)
(* the test for an empty request, and the cut into the first line and the  *)
(* remainder.                                                              *)
(***************************************************************************)
\* the length of the buffer of parse_request, [0; 1024] in the source
BufferSize == 10

\* the byte 0 the buffer is initialised with
NUL == "NUL"

\* stream.read(&mut buffer) returned Ok: the bytes read, then the zeros the
\* read left in place
Fill(read) == read \o [i \in 1..(BufferSize - Len(read)) |-> NUL]

\* str::trim_matches(|c| c == '\r' || c == '\n')
RECURSIVE TrimStartCrLf(_)
TrimStartCrLf(s) ==
    IF s # <<>> /\ Head(s) \in {"\r", "\n"} THEN TrimStartCrLf(Tail(s)) ELSE s
RECURSIVE TrimEndCrLf(_)
TrimEndCrLf(s) ==
    IF s # <<>> /\ s[Len(s)] \in {"\r", "\n"}
    THEN TrimEndCrLf(SubSeq(s, 1, Len(s) - 1)) ELSE s
TrimCrLf(s) == TrimEndCrLf(TrimStartCrLf(s))

\* str::splitn(2, "\r\n"): the text before the first CR LF and the text
\* after it, or the text alone
RECURSIVE SplitCrLf(_, _)
SplitCrLf(s, i) ==
    IF i >= Len(s) THEN <<s>>
    ELSE IF s[i] = "\r" /\ s[i + 1] = "\n"
    THEN <<SubSeq(s, 1, i - 1), SubSeq(s, i + 2, Len(s))>>
    ELSE SplitCrLf(s, i + 1)

\* str::split_whitespace: the runs of characters that are not whitespace
RECURSIVE SplitWhitespace(_, _, _)
SplitWhitespace(s, cur, acc) ==
    IF s = <<>> THEN (IF cur = <<>> THEN acc ELSE Append(acc, cur))
    ELSE IF IsWhitespace(Head(s))
    THEN SplitWhitespace(Tail(s), <<>>, IF cur = <<>> THEN acc ELSE Append(acc, cur))
    ELSE SplitWhitespace(Tail(s), Append(cur, Head(s)), acc)

\* str::lines: the text cut at every LF, a CR before the LF dropped, and no
\* empty line for a text that ends with LF
RECURSIVE Lines(_, _, _)
Lines(s, cur, acc) ==
    IF s = <<>> THEN (IF cur = <<>> THEN acc ELSE Append(acc, cur))
    ELSE IF Head(s) = "\n"
    THEN Lines(Tail(s), <<>>,
               Append(acc, IF cur # <<>> /\ cur[Len(cur)] = "\r"
                           THEN SubSeq(cur, 1, Len(cur) - 1) ELSE cur))
    ELSE Lines(Tail(s), Append(cur, Head(s)), acc)

\* deserialize on the pieces of request.trim().splitn(2, "\r\n"): the
\* words of the first piece, the lines of the second
Pieces(buffer, read, pieces) ==
    [kind |-> "request",
     words |-> SplitWhitespace(pieces[1], <<>>, <<>>),
     lines |-> IF Len(pieces) >= 2 THEN Lines(pieces[2], <<>>, <<>>) ELSE <<>>,
     buffer |-> buffer, read |-> read]

\* parse_request on a read that returned Ok: EmptyRequest when the whole
\* buffer is CR and LF, otherwise deserialize on the whole buffer
Received(read) ==
    IF TrimCrLf(Fill(read)) = <<>>
    THEN [kind |-> "crlf", words |-> <<>>, lines |-> <<>>,
          buffer |-> Fill(read), read |-> read]
    ELSE Pieces(Fill(read), read, SplitCrLf(Trim(Fill(read)), 1))

\* CR LF over and over, n bytes of it
CrLfs(n) == [i \in 1..n |-> IF i % 2 = 1 THEN "\r" ELSE "\n"]

\* the bytes the clients of the model send
BufferReads ==
    { <<>>, <<" ">>, <<"\r", "\n">>, <<" ", "\r", "\n", " ">>, <<"\t", "\r", "\n">>,
      CrLfs(4), CrLfs(BufferSize), [i \in 1..BufferSize |-> " "],
      <<"G","E","T">>,
      <<"G","E","T"," ","/","a">>,
      <<"G","E","T"," ","/","a","\r","\n">>,
      <<"G","E","T"," ","/","a"," ","\r","\n">>,
      <<"H","E","A","D"," ","/","a","\r","\n">> }

BufferRaws ==
    { [kind |-> "fail", words |-> <<>>, lines |-> <<>>, buffer |-> Fill(<<>>),
       read |-> <<>>] }
    \cup { Received(read) : read \in BufferReads }

NextBuffer ==
    \/ Register(ServeCalls)
    \/ SetAuthFunc(AuthFuncs)
    \/ Listen
    \/ ParseRequest(BufferRaws)
    \/ SeekHandlerTask
    \/ RemainderTask
    \/ RecvRoute
    \/ RecvRouteTimeout
    \/ RecvRemainder
    \/ RecvRemainderTimeout
    \/ Respond(HandlerEffects)
    \/ WriteHead
    \/ FlushOnly
    \/ FlushBody
    \/ TryClone
    \/ KeepLongConn
    \/ StreamShutdown
    \/ CloseConnection

SpecBuffer == InitRouter /\ [][NextBuffer]_vars

(***************************************************************************)
(* split_path alone, on targets put together from a path, a query and a    *)
(* fragment.                                                               *)
(***************************************************************************)
PathTexts ==
    { <<"/">>, <<"/", "a">>, <<"/", "a", "/">>, <<"/", "a", "/", "b">>,
      <<"/", "a", "/", "b", "/">>, <<"a">> }
QueryTexts == { <<>>, <<"?">>, <<"?", "x", "=", "1">>, <<"?", "y">> }
FragmentTexts == { <<>>, <<"#">>, <<"#", "f", "r", "a", "g">> }

\* raw.words holds the three parts the target was put together from
InitPath ==
    /\ store = <<>>
    /\ auth_func = "none"
    /\ history = <<>>
    /\ panicked = FALSE
    /\ pc = "split"
    /\ raw \in {[kind |-> "target", words |-> <<p, q, f>>]
                : p \in PathTexts, q \in QueryTexts, f \in FragmentTexts}
    /\ req = NewRequest
    /\ task = NoTask
    /\ chan = NoChan
    /\ probe = NoProbe
    /\ conn = NoConn
    /\ rem = NoRem
    /\ resp = NoResp
    /\ wire = NoWire

\* split_path(info, &mut req.uri, &mut raw_scheme, &mut raw_fragment)
SplitPathCall ==
    /\ pc = "split"
    /\ LET sp == SplitPath(raw.words[1] \o raw.words[2] \o raw.words[3])
       IN  /\ req' = [req EXCEPT !.uri = sp.uri, !.scheme = sp.scheme, !.fragment = sp.frag]
           /\ pc' = IF sp.panic THEN "split_panic" ELSE "split_done"
    /\ UNCHANGED <<store, auth_func, history, panicked, raw, task, chan, probe, conn, rem, resp, wire>>

NextPath == SplitPathCall

SpecPath == InitPath /\ [][NextPath]_vars

(***************************************************************************)
(* Observations shared by the properties of the router.                    *)
(***************************************************************************)
\* seek_handler has run and its message is on the channel
Answered == task.state = "ran" /\ chan.msgs # <<>>

\* the handler the lookup sent
Sent == chan.msgs[1]

\* the registration calls that bound the explicit path to the method
ExplicitCalls(method, path) ==
    {i \in DOMAIN history : CallMethod(history[i]) = method /\ history[i].uri = Explicit(path)}

\* the segments of a request URI, in path order
UriSegments(uri) == SplitChar(TrimMatches(uri, "/"), "/")

\* the segment satisfies the field of a route, as the route was written
FieldAccepts(field, segment) ==
    IF field.is_param
    THEN field.validation = <<>> \/ RegexIsMatch(field.validation, segment)
    ELSE field.name = segment

\* the URI matches the route's segments s1..sn in path order
MatchesInPathOrder(fields, segments) ==
    /\ Len(fields) = Len(segments)
    /\ \A j \in DOMAIN fields : FieldAccepts(fields[j], segments[j])

\* the parameterized registrations on the method, with the fields of each
ParamCalls(method) ==
    {i \in DOMAIN history : /\ CallMethod(history[i]) = method
                            /\ history[i].uri.kind = "ExplicitWithParams"
                            /\ Contains(history[i].uri.path, <<"/", ":">>)}

FieldsOf(i) == ParamsParser(history[i].uri.path).fields

\* the trie the last walk was made in
ProbeTrie ==
    LET method == IF probe.table = "all" THEN ROUTE_ALL
                  ELSE IF probe.table = "get" THEN Rest("GET") ELSE task.method
    IN  store[method].explicit_with_params

\* the parent of a node of the trie, and the branch from the root's child
\* down to the node
ParentOf(nodes, n) ==
    CHOOSE p \in DOMAIN nodes :
        \/ \E k \in DOMAIN nodes[p].named_children : nodes[p].named_children[k] = n
        \/ \E k \in DOMAIN nodes[p].params_children : nodes[p].params_children[k] = n

RECURSIVE BranchOf(_, _)
BranchOf(nodes, n) ==
    IF n = 1 THEN <<>> ELSE Append(BranchOf(nodes, ParentOf(nodes, n)), n)

\* the (name, segment) pairs of the parameter nodes on the branch
BranchBindings(nodes, branch, segments) ==
    LET at == {d \in DOMAIN branch : nodes[branch[d]].field.is_param}
    IN  [name \in {nodes[branch[d]].field.name : d \in at} |->
            segments[CHOOSE d \in at : nodes[branch[d]].field.name = name]]

\* the parameter children of the node's parent that come after the node
LaterSiblings(nodes, n) ==
    LET kids == nodes[ParentOf(nodes, n)].params_children
        at == CHOOSE k \in DOMAIN kids : kids[k] = n
    IN  {kids[k] : k \in {x \in DOMAIN kids : x > at}}

(***************************************************************************)
(* Properties of the router (specification Spec).                          *)
(***************************************************************************)
\* C1: when an explicit path has been registered on a method, by any
\* sequence of registrations, resolving that path on that method returns the
\* handler of the LAST registration of the path.
C1_LastBindingWins ==
    Answered =>
        LET calls == ExplicitCalls(task.method, task.uri)
        IN  calls # {} => Sent.cb = CHOOSE i \in calls : \A j \in calls : j <= i

\* C2: for every parameterized route registered on a method, a URI whose
\* segments match the route's segments one by one in path order resolves, on
\* that method, to the handler of that route.
C2_ParamRouteResolves ==
    Answered =>
        \A i \in ParamCalls(task.method) :
            MatchesInPathOrder(FieldsOf(i), UriSegments(task.uri)) => Sent.cb = i

\* C3: after a lookup answered by the trie, the bindings returned are exactly
\* the (parameter name, segment) pairs of the parameter nodes on the matched
\* branch: nothing of an abandoned branch is among them.
C3_BindingsAreTheBranch ==
    (Answered /\ probe.tier = "params") =>
        Sent.params = BranchBindings(ProbeTrie, BranchOf(ProbeTrie, probe.walk.node),
                                     UriSegments(task.uri))

\* C4, first half: the route a trie lookup selects has no validated parameter
\* whose corresponding segment of the URI fails the validator.
C4_ValidatorRespected ==
    (Answered /\ probe.tier = "params") =>
        \A j \in DOMAIN FieldsOf(Sent.cb) :
            LET field == FieldsOf(Sent.cb)[j]
            IN  (field.is_param /\ field.validation # <<>>) =>
                    /\ j <= Len(UriSegments(task.uri))
                    /\ RegexIsMatch(field.validation, UriSegments(task.uri)[j])

\* C4, second half: when a validator rejects a segment, the walk either ends
\* with a handler or has tried every remaining sibling parameter branch.
C4_SiblingsTried ==
    Answered =>
        \A k \in DOMAIN probe.walk.trace :
            (~probe.walk.trace[k][2] /\ probe.walk.cb = NoCallback) =>
                \A sib \in LaterSiblings(ProbeTrie, probe.walk.trace[k][1]) :
                    \E m \in DOMAIN probe.walk.trace :
                        m > k /\ probe.walk.trace[m][1] = sib

\* C4: a validator mismatch never selects the branch, and the lookup falls
\* through to the remaining sibling parameter branches, each of which is
\* tried, or fails.
C4_MismatchFallsThrough == C4_ValidatorRespected /\ C4_SiblingsTried

\* the table the method's lookup reads, and what each tier alone has for the
\* URI of the lookup
TaskTable == store[task.method]
ExplicitHit == task.uri \in DOMAIN TaskTable.explicit
TrieHit ==
    /\ ~TrieIsEmpty(TaskTable.explicit_with_params)
    /\ SearchParamsRouter(TaskTable.explicit_with_params, task.uri).cb # NoCallback
WildcardHits ==
    {k \in DOMAIN TaskTable.wildcard : RegexIsMatch(TaskTable.wildcard[k].regex, task.uri)}

\* C5: within the table of one method the tiers are consulted in the order
\* explicit map, parameterized trie, wildcard routes: when the explicit map
\* has the URI its handler is returned whatever the trie and the wildcards
\* match, and when only the trie and the wildcards match, the trie's handler
\* is returned.
C5_TierOrder ==
    (Answered /\ task.method \in DOMAIN store) =>
        /\ ExplicitHit => (Sent.cb = TaskTable.explicit[task.uri] /\ probe.tier = "explicit")
        /\ (~ExplicitHit /\ TrieHit) =>
              /\ Sent.cb = SearchParamsRouter(TaskTable.explicit_with_params, task.uri).cb
              /\ probe.tier = "params"
        /\ (probe.tier = "wildcard" /\ probe.table = "method") => (~ExplicitHit /\ ~TrieHit)

\* C5, the case: the explicit map and the trie both match the URI, with
\* different handlers, and the explicit handler was returned
C5_BothMatch ==
    /\ Answered
    /\ task.method \in DOMAIN store
    /\ ExplicitHit
    /\ TrieHit
    /\ SearchParamsRouter(TaskTable.explicit_with_params, task.uri).cb
          # TaskTable.explicit[task.uri]
    /\ Sent.cb = TaskTable.explicit[task.uri]

\* the wildcard registrations on the method whose pattern matches the URI
WildcardCalls(method, uri) ==
    {i \in DOMAIN history : /\ CallMethod(history[i]) = method
                            /\ history[i].uri.kind = "WildCard"
                            /\ RegexNewOk(history[i].uri.path)
                            /\ RegexIsMatch(history[i].uri.path, uri)}

\* C6: when the wildcard tier answers, the handler returned is the one of the
\* earliest registered pattern that matches the URI, in every execution.
C6_EarliestWildcardWins ==
    (Answered /\ probe.tier = "wildcard" /\ probe.table = "method") =>
        LET calls == WildcardCalls(task.method, task.uri)
        IN  Sent.cb = CHOOSE i \in calls : \A j \in calls : i <= j

(***************************************************************************)
(* Properties of the request pipeline (specification SpecConn).            *)
(***************************************************************************)
\* the connection has been answered for a request line with a target
DoneRequest == pc = "done" /\ raw.kind = "request" /\ Len(raw.words) >= 2

\* the explicit paths registered, on whatever method
RegisteredPaths ==
    {history[i].uri.path : i \in {j \in DOMAIN history : history[j].uri.kind = "Explicit"}}

\* what the method token of the request line parses to
Parsed == ParseMethod(raw.words[1])

\* C7: for every registered explicit path P longer than one character, a
\* request whose target is P followed by one '/' gets the URI P, and the
\* handler it resolves to is the one a request for P resolves to.
C7_TrailingSlash ==
    DoneRequest =>
        \A P \in RegisteredPaths :
            (Len(P) > 1 /\ raw.words[2] = P \o <<"/">>) =>
                /\ req.uri = P
                /\ ~conn.timed_out =>
                      conn.res \in {r.cb : r \in SeekHandler(store, Parsed.method, P,
                                                             Parsed.header_only)}

\* C7, the case: a request for a registered path plus '/' was answered with
\* the handler registered for the path
C7_SlashResolved ==
    /\ DoneRequest
    /\ \E P \in RegisteredPaths : Len(P) > 1 /\ raw.words[2] = P \o <<"/">>
    /\ conn.invoked # NoCallback
    /\ history[conn.invoked].uri = Explicit(req.uri)
    /\ raw.words[2] = req.uri \o <<"/">>

\* the method token a registration function stands for
ApiToken(api) ==
    CASE api = "get" -> <<"G","E","T">>
      [] api = "put" -> <<"P","U","T">>
      [] api = "post" -> <<"P","O","S","T">>
      [] api = "delete" -> <<"D","E","L","E","T","E">>
      [] api = "options" -> <<"O","P","T","I","O","N","S">>
      [] api = "patch" -> <<"P","A","T","C","H">>
      [] OTHER -> <<>>

\* C9: a route registered through get, put, post, delete, options or patch
\* is resolved for a request whose method token names that method, in any
\* letter case, and whose URI is the route's path: the handler found is one
\* registered through that function.
C9_SameMethodResolved ==
    (DoneRequest /\ ~conn.timed_out) =>
        \A i \in DOMAIN history :
            (/\ ApiToken(history[i].api) # <<>>
             /\ ToUppercase(raw.words[1]) = ApiToken(history[i].api)
             /\ history[i].uri = Explicit(req.uri)) =>
                /\ conn.res # NoCallback
                /\ history[conn.res].api = history[i].api

\* the method of the request has no route table; a catch-all route matches
\* the URI; the installed predicate denies the request
NoTable == Parsed.method \notin DOMAIN store
CatchAllMatches ==
    /\ ROUTE_ALL \in DOMAIN store
    /\ \E r \in SeekPath(store[ROUTE_ALL], req.uri, <<>>) : r.cb # NoCallback
Denied == auth_func # "none" /\ ~AuthAllows(auth_func, req, req.uri)
GetHas == Rest("GET") \in DOMAIN store /\ req.uri \in DOMAIN store[Rest("GET")].explicit

\* the GET table answers a method without a table only for a header-only
\* request, and does answer it then
GetOnlyHeaderOnly ==
    (DoneRequest /\ NoTable) =>
        /\ (conn.res # NoCallback /\ history[conn.res].api = "get") => Parsed.header_only
        /\ (Parsed.header_only /\ GetHas /\ ~conn.timed_out) =>
              conn.res = store[Rest("GET")].explicit[req.uri]

WithoutTrailingSlash(path) ==
    IF Len(path) > 1 /\ path[Len(path)] = "/" THEN SubSeq(path, 1, Len(path) - 1) ELSE path

\* C8: split_path decomposes every target path[?query][#fragment] into the
\* URI, which is the path less a trailing '/' when longer than one character,
\* the scheme, which is the query text without its '?', and the fragment,
\* which is the fragment text with its '#'.
C8_Decomposition ==
    (pc \in {"split_done", "split_panic"}) =>
        /\ pc = "split_done"
        /\ req.uri = WithoutTrailingSlash(raw.words[1])
        /\ req.scheme = (IF raw.words[2] = <<>> THEN <<>> ELSE Tail(raw.words[2]))
        /\ req.fragment = raw.words[3]

(***************************************************************************)
(* The catch-all table (specification Spec).                               *)
(***************************************************************************)
\* the table seek_handler reads first for the lookup: the method's own, the
\* GET table for a header-only lookup of a method without a table, or none
FirstTable ==
    IF task.method \in DOMAIN store THEN <<task.method>>
    ELSE IF task.header_only /\ Rest("GET") \in DOMAIN store THEN <<Rest("GET")>>
    ELSE <<>>

\* the handlers the first table can give for the URI of the lookup
FirstHandlers ==
    IF FirstTable = <<>> THEN {NoCallback}
    ELSE {r.cb : r \in SeekPath(store[FirstTable[1]], task.uri, <<>>)}

\* C11: a route registered with all() is a last resort: when the table of
\* the method (or the GET table on the header-only fallback) has a handler
\* for the URI, in whatever tier, that handler is sent and the lookup never
\* reads the catch-all table; the catch-all table is read only when that
\* first lookup gave nothing.
C11_CatchAllLast ==
    Answered =>
        /\ (NoCallback \notin FirstHandlers) =>
              (Sent.cb \in FirstHandlers /\ probe.table \in {"method", "get"})
        /\ (probe.table = "all") => (NoCallback \in FirstHandlers)

\* C11, the case: the method's table and the catch-all table both have a
\* handler for the URI, and the one sent is the method's
C11_BothTablesMatch ==
    /\ Answered
    /\ task.method # ROUTE_ALL
    /\ task.method \in DOMAIN store
    /\ NoCallback \notin FirstHandlers
    /\ ROUTE_ALL \in DOMAIN store
    /\ \E r \in SeekPath(store[ROUTE_ALL], task.uri, <<>>) : r.cb # NoCallback
    /\ history[Sent.cb].api # "all"

(***************************************************************************)
(* Properties of handle_connection (specification SpecServe).              *)
(***************************************************************************)
\* parse_request has returned; handle_connection has acted on its result
PastParse == pc \in {"done", "write", "flush_only", "flush_body", "try_clone",
                     "streaming", "shutdown", "returned"}
PastRespond == PastParse /\ pc # "done"

\* C12: on every path handle_connection performs a Shutdown::Both on the
\* socket before it returns; the only path that may postpone it is the
\* keep-alive one, which hands the socket to the streaming loop first.
C12_ShutdownOnEveryPath ==
    (pc = "returned" /\ wire.path # "panic") => wire.shutdowns >= 1

\* C13: the execution code handle_connection returns is 0 only when no write,
\* flush or shutdown on the socket failed, and not 0 whenever one of them
\* failed.
C13_CodeTellsFailure ==
    (pc = "returned" /\ wire.path # "panic") => (wire.code = 0 <=> ~wire.failed)

C17_OneInvocation ==
    /\ Len(wire.calls) <= 1
    /\ ~PastRespond => wire.calls = <<>>
    /\ (PastRespond /\ conn.err = "none") =>
          (Len(wire.calls) = 1 /\ wire.calls[1].cb = conn.res /\ conn.res # NoCallback)
    /\ (PastRespond /\ conn.err # "none") => wire.calls = <<>>

\* C17, the case: a request passed the installed predicate and its handler
\* has been invoked once when the connection returns
C17_InvokedOnce ==
    /\ pc = "returned"
    /\ auth_func # "none"
    /\ conn.err = "none"
    /\ Len(wire.calls) = 1
    /\ wire.calls[1].cb = conn.res

\* the redirect target with one '/' in front when it had none
WithLeadingSlash(target) ==
    IF target[1] = "/" THEN target ELSE <<"/">> \o target

C19_FlushRetry ==
    (wire.path = "close") =>
        /\ Len(wire.flushes) <= FLUSH_RETRY
        /\ \A i \in 1..(Len(wire.flushes) - 1) : ~wire.flushes[i]
        /\ pc \in {"shutdown", "returned"} =>
              /\ wire.flushes # <<>>
              /\ wire.flushes[Len(wire.flushes)] \/ Len(wire.flushes) = FLUSH_RETRY
        /\ pc = "returned" => wire.shutdowns = 1

\* C19, the case: every attempt failed and the socket was shut down all the
\* same
C19_AllFlushesFailed ==
    /\ pc = "returned"
    /\ wire.path = "close"
    /\ wire.flushes = <<FALSE, FALSE, FALSE, FALSE>>
    /\ wire.shutdowns = 1

\* the request as sent has the line "Connection: close"
CarriesClose == \E i \in DOMAIN raw.lines : raw.lines[i] = ConnectionClose

\* C20, as stated: a dispatched request gets a keep-alive response exactly
\* when it does not carry Connection: close; an error response is never
\* keep-alive.
C20_KeepAliveByRequest ==
    PastRespond =>
        /\ conn.err = "none" => (resp.keep_alive <=> ~CarriesClose)
        /\ conn.err \in {"EmptyRequest", "AccessDenied", "ServiceUnavailable"} =>
              ~resp.keep_alive

\* C20, amended: a dispatched request gets a keep-alive response exactly
\* when it does not carry Connection: close or its headers were not received
\* from the header task before the receive timed out; an error response is
\* never keep-alive.
C20_KeepAliveByReceivedHeaders ==
    PastRespond =>
        /\ conn.err = "none" => (resp.keep_alive <=> ~(CarriesClose /\ rem.received))
        /\ conn.err \in {"EmptyRequest", "AccessDenied", "ServiceUnavailable"} =>
              ~resp.keep_alive

\* C20, the case: the headers with Connection: close were received and the
\* dispatched request was answered without keep-alive
C20_CloseHonoured ==
    /\ pc = "returned"
    /\ conn.err = "none"
    /\ CarriesClose
    /\ rem.received
    /\ ~resp.keep_alive
    /\ wire.calls # <<>>

(***************************************************************************)
(* Properties of parse_request on the bytes read (specification            *)
(* SpecBuffer).                                                            *)
(***************************************************************************)
\* the client sent something, and nothing but whitespace
BlankRead ==
    /\ "read" \in DOMAIN raw
    /\ raw.kind # "fail"
    /\ raw.read # <<>>
    /\ \A i \in DOMAIN raw.read : IsWhitespace(raw.read[i])

\* C15: a request of nothing but whitespace and CR LF is rejected as
\* EmptyRequest with status 400, and neither the lookup nor the header task
\* is dispatched for it.
C15_BlankIsEmptyRequest ==
    (PastParse /\ BlankRead) =>
        /\ conn.err = "EmptyRequest"
        /\ conn.status = 400
        /\ task.state = "none"
        /\ rem.state = "none"

(***************************************************************************)
(* Properties of the method token HEADER (specification SpecServe).        *)
(***************************************************************************)
\* C21: a dispatched request whose method token is HEADER is answered in
\* header-only mode: write_to_stream takes the header-only branch and writes
\* no body.
C21_HeaderTokenIsHeaderOnly ==
    (pc = "returned" /\ conn.err = "none" /\ raw.kind = "request"
        /\ raw.words[1] = <<"H","E","A","D","E","R">>) =>
        /\ resp.header_only
        /\ wire.path = "header_only"
        /\ wire.bodies = 0

(***************************************************************************)
(* Properties of the registration of an ExplicitWithParams path            *)
(* (specification SpecParams).  The path is read by the grammar of a route *)
(* path: segments between '/', a parameter is a segment that starts with   *)
(* ':', its name is the text up to a '(' or the end of the segment, and a  *)
(* validator is the text between that '(' and the ')' that closes it.      *)
(***************************************************************************)
\* one character of the reading; g.mode is where the reading is: at the
\* start of a segment, in a literal segment, in a parameter name, in a
\* validator, or after a validator was closed
GrammarStep(g, c) ==
    CASE g.mode = "start" ->
            IF c = "/" THEN g
            ELSE IF c = ":" THEN [g EXCEPT !.mode = "name", !.cur = <<>>]
            ELSE IF c = "(" THEN [g EXCEPT !.mode = "literal", !.misplaced = TRUE]
            ELSE [g EXCEPT !.mode = "literal"]
      [] g.mode = "literal" ->
            IF c = "/" THEN [g EXCEPT !.mode = "start"]
            ELSE IF c \in {":", "("} THEN [g EXCEPT !.misplaced = TRUE]
            ELSE g
      [] g.mode = "name" ->
            IF c = "/" THEN [g EXCEPT !.mode = "start", !.names = Append(@, g.cur)]
            ELSE IF c = "("
            THEN [g EXCEPT !.mode = "validator", !.names = Append(@, g.cur),
                           !.misplaced = @ \/ g.cur = <<>>]
            ELSE IF c = ":" THEN [g EXCEPT !.misplaced = TRUE, !.cur = Append(@, c)]
            ELSE [g EXCEPT !.cur = Append(@, c)]
      [] g.mode = "validator" ->
            IF c = ")" THEN [g EXCEPT !.mode = "closed"]
            ELSE g
      [] OTHER ->
            IF c = "/" THEN [g EXCEPT !.mode = "start"]
            ELSE IF c \in {":", "("} THEN [g EXCEPT !.mode = "literal", !.misplaced = TRUE]
            ELSE [g EXCEPT !.mode = "literal"]

RECURSIVE GrammarScan(_, _)
GrammarScan(g, s) ==
    IF s = <<>>
    THEN [g EXCEPT !.names = IF g.mode = "name" THEN Append(@, g.cur) ELSE @,
                   !.unclosed = @ \/ g.mode = "validator"]
    ELSE GrammarScan(GrammarStep(g, Head(s)), Tail(s))

\* the reading of a path: the names of its parameters in order, whether a
\* ':' or a '(' stands where the grammar has no place for it, and whether a
\* validator is not closed before the end (a '/' in a validator is part of
\* the validator)
Grammar(path) ==
    GrammarScan([mode |-> "literal", cur |-> <<>>, names |-> <<>>, misplaced |-> FALSE,
                 unclosed |-> FALSE], path)

HasDuplicate(names) ==
    \E i, j \in DOMAIN names : i < j /\ names[i] # <<>> /\ names[i] = names[j]

\* the registration of the path has run
Inserted == pc = "inserted"

\* C22: the registration of a path with two parameters of the same name
\* panics, and nothing is stored.
C22_DuplicateNamePanics ==
    (Inserted /\ HasDuplicate(Grammar(raw.words[1]).names)) =>
        (panicked /\ store = <<>>)

\* C23: the registration of a path with a validator that is not closed by
\* ')' before the next '/' or the end of the path panics, and nothing is
\* stored.
C23_UnclosedValidatorPanics ==
    (Inserted /\ Grammar(raw.words[1]).unclosed) => (panicked /\ store = <<>>)

\* C24: the registration of a path with a ':' that is not the first
\* character of a segment (and not in a validator), or with a '(' that does
\* not follow a parameter name, panics.
C24_MisplacedMarkerPanics ==
    (Inserted /\ Grammar(raw.words[1]).misplaced) => panicked

\* C29: a path without ':' registered as ExplicitWithParams is stored in the
\* explicit map and not in the trie, and is refused with a panic unless it
\* is not empty and starts with '/'.
C29_NoMarkerIsExplicit ==
    (Inserted /\ ":" \notin Range(raw.words[1])) =>
        IF raw.words[1] # <<>> /\ raw.words[1][1] = "/"
        THEN /\ ~panicked
             /\ DOMAIN store[Rest("GET")].explicit = {ToLowercase(raw.words[1])}
             /\ TrieIsEmpty(store[Rest("GET")].explicit_with_params)
        ELSE panicked /\ store = <<>>

(***************************************************************************)
(* Properties of the cookie, query and header parsers (specification       *)
(* SpecFields).                                                            *)
(***************************************************************************)
\* a text between two separators read as key[=value]: the key and the value
\* are the trimmed texts before and after the first '='
PairKey(piece) == Trim(SplitN2(Trim(piece), "=")[1])
PairValue(piece) ==
    IF Len(SplitN2(Trim(piece), "=")) = 2 THEN Trim(SplitN2(Trim(piece), "=")[2]) ELSE <<>>

\* the values of the pieces whose key is k, in the order of the pieces
RECURSIVE ValuesOf(_, _)
ValuesOf(pieces, k) ==
    IF pieces = <<>> THEN <<>>
    ELSE IF PairKey(Head(pieces)) = k
    THEN <<PairValue(Head(pieces))>> \o ValuesOf(Tail(pieces), k)
    ELSE ValuesOf(Tail(pieces), k)

\* the same with the keys in lower case, as the cookie map stores them
RECURSIVE CookieValuesOf(_, _)
CookieValuesOf(pieces, k) ==
    IF pieces = <<>> THEN <<>>
    ELSE IF ToLowercase(PairKey(Head(pieces))) = k
    THEN <<PairValue(Head(pieces))>> \o CookieValuesOf(Tail(pieces), k)
    ELSE CookieValuesOf(Tail(pieces), k)

CookiePieces == SplitChar(raw.words[1], ";")
SchemePieces == SplitChar(raw.words[1], "&")

\* C25: the cookie map holds one entry for every key of the pieces between
\* ';' (keys in lower case, pieces without a key dropped); its value is the
\* value of the first piece with that key, empty when the piece has no '='.
C25_CookiePairs ==
    (pc = "parsed" /\ raw.kind = "cookie") =>
        /\ DOMAIN req.cookie =
              {ToLowercase(PairKey(CookiePieces[i])) : i \in DOMAIN CookiePieces} \ {<<>>}
        /\ \A k \in DOMAIN req.cookie : req.cookie[k] = CookieValuesOf(CookiePieces, k)[1]

\* C25, the case: "a=1;a=2;b" gives a the first value and b the empty one
C25_FirstValueKept ==
    /\ pc = "parsed"
    /\ raw.kind = "cookie"
    /\ raw.words[1] = <<"a","=","1",";","a","=","2",";","b">>
    /\ req.cookie = (<<"a">> :> <<"1">>) @@ (<<"b">> :> <<>>)

\* C26: a header line whose name is cookie in any letter case goes to the
\* cookie map and leaves no entry "cookie" in the header map.
C26_CookieLineAnyCase ==
    (pc = "parsed" /\ raw.kind = "lines"
        /\ \E i \in DOMAIN raw.lines :
              /\ Len(SplitN2(raw.lines[i], ":")) = 2
              /\ ToLowercase(Trim(SplitN2(raw.lines[i], ":")[1])) = <<"c","o","o","k","i","e">>) =>
        /\ <<"c","o","o","k","i","e">> \notin DOMAIN req.header
        /\ req.cookie # <<>>

\* C27: the query map of a request holds one entry for every key of the
\* pieces of its query string between '&'; its value is the list of the
\* values of the pieces with that key, in their order, a piece without '='
\* giving the empty string.  This is so for scheme_parser on the query
\* string, and for the request whose target has that query string.
C27_QueryValues ==
    (pc = "parsed" /\ raw.kind \in {"scheme", "target"} /\ raw.words[1] # <<>>) =>
        /\ DOMAIN req.scheme = {PairKey(SchemePieces[i]) : i \in DOMAIN SchemePieces}
        /\ \A k \in DOMAIN req.scheme : req.scheme[k] = ValuesOf(SchemePieces, k)

(***************************************************************************)
(* Properties of the keys of the route tables (specification SpecKeys).    *)
(***************************************************************************)
\* the registrations of the history that gave the path as Explicit, or as
\* ExplicitWithParams without a parameter, to the table of the method
ExplicitlyRegistered(method, path) ==
    {i \in DOMAIN history :
        /\ CallMethod(history[i]) = method
        /\ history[i].uri.kind \in {"Explicit", "ExplicitWithParams"}
        /\ history[i].uri.path = path}

\* C28: a lookup finds every explicit path a registration stored when it
\* asks for the identical string under the same method, whatever the letter
\* case of the path and of the method token.
C28_StoredKeyIsFound ==
    (pc = "idle" /\ task.state = "ran" /\ ~panicked
        /\ ExplicitlyRegistered(task.method, task.uri) # {}) =>
        chan.msgs[1].cb # NoCallback

\* the registrations of the history that gave a pattern which compiles to
\* the wildcard list of the method under the key
WildcardRegistered(method, key) ==
    {i \in DOMAIN history :
        /\ CallMethod(history[i]) = method
        /\ history[i].uri.kind = "WildCard"
        /\ RegexNewOk(history[i].uri.path)
        /\ ToLowercase(history[i].uri.path) = key}

FirstOf(indices) == CHOOSE i \in indices : \A j \in indices : i <= j

\* C30: the wildcard list of a method table holds the patterns the
\* registrations gave that compile, each bound to the handler of the first
\* registration that gave it; a registration of a pattern that is already
\* there, or that does not compile, changes nothing and does not panic.
C30_FirstPatternStays ==
    /\ \A m \in DOMAIN store :
          /\ \A k \in DOMAIN store[m].wildcard :
                /\ WildcardRegistered(m, k) # {}
                /\ store[m].wildcard[k].handler = FirstOf(WildcardRegistered(m, k))
          /\ \A i \in DOMAIN history :
                i \in WildcardRegistered(m, ToLowercase(history[i].uri.path)) =>
                   ToLowercase(history[i].uri.path) \in DOMAIN store[m].wildcard
    /\ panicked => history[Len(history)].uri.kind # "WildCard"

\* C30, the case: a pattern was registered, then one that does not compile,
\* then the first pattern again, and the list holds the first binding only
C30_RepeatedAndInvalid ==
    /\ history = << Call("get", WildCard(<<"a">>)), Call("get", WildCard(<<"(">>)),
                    Call("get", WildCard(<<"a">>)) >>
    /\ ~panicked
    /\ DOMAIN store[Rest("GET")].wildcard = {<<"a">>}
    /\ store[Rest("GET")].wildcard[<<"a">>].handler = 1

(***************************************************************************)
(* Properties of deserialize when a receive times out (specification       *)
(* SpecPartial).                                                           *)
(***************************************************************************)
\* deserialize waited for the header/cookie/body closure and gave up
RemainderTimedOut ==
    /\ PastParse
    /\ rem.state # "none"
    /\ req.uri # <<>>
    /\ ~rem.open
    /\ ~rem.received

\* what deserialize_baseline placed in the Request is there, the handler the
\* lookup delivered is dispatched unless the predicate denies the request,
\* cookies and body are empty and the header map is the one given
DegradedTo(header) ==
    LET sp == SplitPath(raw.words[2])
    IN  /\ req.method = ParseMethod(raw.words[1]).method
        /\ req.uri = sp.uri
        /\ req.scheme = (IF sp.scheme # <<>> THEN SchemeParser(sp.scheme) ELSE <<>>)
        /\ req.fragment = sp.frag
        /\ ~conn.timed_out =>
              \E r \in SeekHandler(store, task.method, task.uri, task.header_only) :
                    /\ conn.res = r.cb
                    /\ r.cb # NoCallback => req.params = r.params
                    /\ (r.cb # NoCallback /\ ~Denied) =>
                          /\ conn.err = "none"
                          /\ PastRespond =>
                                wire.calls = <<[cb |-> r.cb, effect |-> Effect(200, <<>>, <<>>)]>>
        /\ req.cookie = <<>>
        /\ req.body = <<>>
        /\ req.header = header

\* the header map deserialize_baseline leaves: the version, when the first
\* line has a third word
BaselineHeader ==
    IF Len(raw.words) >= 3
    THEN RequestWriteHeader(NewRequest, <<"H","T","T","P","_","V","E","R","S","I","O","N">>,
                            raw.words[3], TRUE).header
    ELSE <<>>

\* C31, as stated: when the header/cookie/body closure does not deliver in
\* time the request is not failed: the handler the lookup resolved is
\* dispatched, method, URI, query map, fragment and path parameters are
\* kept, and headers, cookies and body are empty.
C31_TimeoutLeavesEmpty ==
    RemainderTimedOut => DegradedTo(<<>>)

\* C31, amended: the same, except that the header map holds what
\* deserialize_baseline wrote, the HTTP_VERSION entry of a first line with a
\* third word, and nothing of the header lines; and the handler is
\* dispatched unless the authorization predicate denies the request.
C31_TimeoutKeepsBaseline ==
    RemainderTimedOut => DegradedTo(BaselineHeader)

\* C31, the case: a request with query, fragment, path parameter, cookie and
\* body lines was answered by its handler after the receive timed out
C31_ServedWithoutRemainder ==
    /\ RemainderTimedOut
    /\ pc = "returned"
    /\ rem.state = "ran"
    /\ conn.err = "none"
    /\ wire.calls # <<>>
    /\ req.params # <<>>
    /\ req.scheme # <<>>
    /\ req.fragment # <<>>
    /\ \E i \in DOMAIN raw.lines : raw.lines[i] = CookieA1

RECURSIVE ReadSegments(_, _, _, _)
ReadSegments(s, cur, in_validator, acc) ==
    IF s = <<>> THEN Append(acc, cur)
    ELSE IF Head(s) = "/" /\ ~in_validator
    THEN ReadSegments(Tail(s), <<>>, FALSE, Append(acc, cur))
    ELSE IF Head(s) = "(" /\ ~in_validator /\ cur # <<>> /\ cur[1] = ":"
    THEN ReadSegments(Tail(s), Append(cur, Head(s)), TRUE, acc)
    ELSE IF Head(s) = ")" /\ in_validator
    THEN ReadSegments(Tail(s), Append(cur, Head(s)), FALSE, acc)
    ELSE ReadSegments(Tail(s), Append(cur, Head(s)), in_validator, acc)

\* the segments of a path, the empty ones left out
Segments(path) == SelectSeq(ReadSegments(path, <<>>, FALSE, <<>>), LAMBDA seg : seg # <<>>)

\* the name of a parameter segment and the text of its validator
ParamName(seg) ==
    IF "(" \in Range(seg) THEN SubSeq(seg, 2, FindChar(seg, "(") - 1) ELSE Tail(seg)
ParamPattern(seg) ==
    IF "(" \in Range(seg) THEN SubSeq(seg, FindChar(seg, "(") + 1, Len(seg) - 1) ELSE <<>>

\* the Field a segment stands for
ReadField(seg) ==
    IF seg[1] = ":" THEN [name |-> ParamName(seg), is_param |-> TRUE,
                          validation |-> ParamPattern(seg)]
    ELSE [name |-> seg, is_param |-> FALSE, validation |-> <<>>]

ReadFields(path) == [i \in DOMAIN Segments(path) |-> ReadField(Segments(path)[i])]

\* a segment the grammar of a route path allows: a literal without ':' and
\* '(', or ':' and an alphanumeric name, alone or followed by a validator
\* that compiles and whose ')' ends the segment
WellFormedSegment(seg) ==
    IF seg[1] # ":" THEN ":" \notin Range(seg) /\ "(" \notin Range(seg)
    ELSE /\ ParamName(seg) # <<>>
         /\ \A i \in DOMAIN ParamName(seg) : IsAlphanumeric(ParamName(seg)[i])
         /\ "(" \in Range(seg) =>
               /\ seg[Len(seg)] = ")"
               /\ ParamPattern(seg) # <<>>
               /\ ")" \notin Range(ParamPattern(seg))
               /\ RegexNewOk(ParamPattern(seg))

\* a path the grammar allows: it starts with '/', has no empty segment
\* between two '/', and no two parameters of the same name
WellFormed(path) ==
    LET pieces == ReadSegments(path, <<>>, FALSE, <<>>)
        fields == ReadFields(path)
    IN  /\ path # <<>>
        /\ path[1] = "/"
        /\ \A i \in 2..(Len(pieces) - 1) : pieces[i] # <<>>
        /\ \A i \in DOMAIN pieces : pieces[i] # <<>> => WellFormedSegment(pieces[i])
        /\ \A i, j \in DOMAIN fields :
              (i < j /\ fields[i].is_param /\ fields[j].is_param) =>
                 fields[i].name # fields[j].name

\* params_parser has run on the path
ParserRan == pc = "parsed"

\* C33: params_parser returns the Fields of a route path in path order, one
\* for each segment that is not empty, with the segment's name, whether it
\* is a parameter, and the text of its validator; a '/' in a validator does
\* not end the segment and a '/' at the end adds no Field.
C33_FieldsInPathOrder ==
    (ParserRan /\ WellFormed(raw.words[1])) =>
        /\ ~panicked
        /\ probe.walk.trace = ReadFields(raw.words[1])

\* C33, the case: the path of params_parser_test_one and its five Fields
C33_TestOne ==
    /\ ParserRan
    /\ ~panicked
    /\ Len(raw.words[1]) = 36
    /\ WellFormed(raw.words[1])
    /\ probe.walk.trace =
          << Field(<<"r","o","o","t">>, FALSE, <<>>),
             Field(<<"a","p","i">>, FALSE, <<>>),
             Field(<<"T">>, TRUE, <<"a","=","[","/","]","b","d","c">>),
             Field(<<"t","h","i","s",".">>, FALSE, <<>>),
             Field(<<"c","h","e","c","k">>, TRUE, <<>>) >>

(***************************************************************************)
(* Properties of the walk of the trie (specification SpecTrie).            *)
(***************************************************************************)
\* the lookup searched the trie
Walked == Answered /\ (probe.walk.trace # <<>> \/ probe.walk.cb # NoCallback)

\* the level of a node: the number of segments consumed when it is reached
LevelOf(nodes, n) == Len(BranchOf(nodes, n))

\* the node has a literal child of that name
HasLiteral(node, name) == name \in DOMAIN node.named_children

\* the parameter children of the node's parent that come before the node
\* and have a name
EarlierSiblings(nodes, n) ==
    LET kids == nodes[ParentOf(nodes, n)].params_children
        at == CHOOSE k \in DOMAIN kids : kids[k] = n
    IN  {kids[k] : k \in {x \in DOMAIN kids : x < at /\ nodes[kids[x]].field.name # <<>>}}

\* a parameter child is examined only where no literal child has the name
\* of the segment, and after the parameter children registered before it
ParamsAfterLiteral(nodes, segments, trace) ==
    \A k \in DOMAIN trace :
        /\ ~HasLiteral(nodes[ParentOf(nodes, trace[k][1])],
                       segments[LevelOf(nodes, trace[k][1])])
        /\ \A e \in EarlierSiblings(nodes, trace[k][1]) :
              \E m \in DOMAIN trace : m < k /\ trace[m][1] = e

\* the node that gave the handler carries it, lies at the level of the last
\* segment, and every node on its branch takes its segment: a literal by
\* its name, a parameter by its validator and for want of a literal child
ResultAtLeaf(nodes, segments, walk) ==
    LET branch == BranchOf(nodes, walk.node)
    IN  /\ nodes[walk.node].callback = walk.cb
        /\ Len(branch) = Len(segments)
        /\ \A d \in DOMAIN branch :
              /\ FieldAccepts(nodes[branch[d]].field, segments[d])
              /\ nodes[branch[d]].field.is_param =>
                    ~HasLiteral(nodes[ParentOf(nodes, branch[d])], segments[d])

\* C34: in a walk of the trie a literal child with the name of the segment
\* is taken when there is one, and the parameter children are tried, in the
\* order they were registered, only when there is none; the node that gives
\* the result carries a handler and lies where the segments of the URI end.
C34_LiteralPreferred ==
    Walked =>
        /\ ParamsAfterLiteral(ProbeTrie, UriSegments(task.uri), probe.walk.trace)
        /\ probe.walk.cb # NoCallback =>
              ResultAtLeaf(ProbeTrie, UriSegments(task.uri), probe.walk)

\* C34, the case: the node a has the literal child b, without a handler,
\* and two parameter children with one; the lookup of /a/b took the literal
\* child, tried no parameter child and found nothing
C34_LiteralTaken ==
    /\ history = << Call("get", ExplicitWithParams(<<"/", ":", "x", "/", "b", "/", "a">>)),
                    Call("get", ExplicitWithParams(<<"/", ":", "z", "(", "1", ")", "/", "a">>)),
                    Call("get", ExplicitWithParams(<<"/", ":", "y", "/", "a">>)) >>
    /\ Answered
    /\ task.uri = <<"/", "a", "/", "b">>
    /\ Sent.cb = NoCallback
    /\ probe.walk.trace = <<>>

(***************************************************************************)
(* Properties of the receive of the route lookup (specification            *)
(* SpecServe).                                                             *)
(***************************************************************************)
\* parse_request has returned after the receive of the lookup timed out
RouteTimedOut == PastParse /\ conn.timed_out

\* a route that answers the request is registered
RouteRegistered ==
    \E r \in SeekHandler(store, task.method, task.uri, task.header_only) : r.cb # NoCallback

\* the connection is answered with the error of the given kind and status
\* and no handler is called
AnsweredWith(err, status) ==
    /\ conn.res = NoCallback
    /\ conn.err = err
    /\ conn.status = status
    /\ PastRespond => (wire.calls = <<>> /\ resp.status = status)

C37_OwnTable ==
    /\ \A t \in DOMAIN store : \A k \in DOMAIN store[t] : history[store[t][k]].api = t
    /\ \A i \in DOMAIN history : history[i].uri \in DOMAIN store[history[i].api]
    /\ \A k \in DOMAIN wire.calls : history[wire.calls[k].cb].api = probe.table

(***************************************************************************)
(* The session store (src/src/support/session.rs).  In the specification   *)
(* SpecSession, store is STORE (session id -> Session), probe holds the    *)
(* clock (Utc::now) and the outcome of the last from_id and of the last    *)
(* removal thread, task is the threads spawned and not yet run, and        *)
(* history is the ids of the sessions handed out by new_session.           *)
(***************************************************************************)
\* the clock stops at MaxNow, at most MaxThreads spawned threads wait to run
MaxNow == 2
MaxThreads == 2
\* DEFAULT_LIFETIME, in ticks of the clock
Lifetime == 1

NoSession == [id |-> <<>>, expires_at |-> 0, auto_renewal |-> FALSE, store |-> <<>>]

Session(id, expires_at, auto_renewal, values) ==
    [id |-> id, expires_at |-> expires_at, auto_renewal |-> auto_renewal, store |-> values]

\* HashMap::remove
MapRemove(map, key) == [k \in DOMAIN map \ {key} |-> map[k]]

\* get_next_expiration
GetNextExpiration(now) == now + Lifetime

\* new_session, for a non-empty id and for an id from gen_session_id, which
\* is any id that is not in the store
NewSession(sessions, id, now) ==
    (id :> Session(id, GetNextExpiration(now), TRUE, <<>>)) @@ sessions

\* save
Save(sessions, session, now) ==
    (session.id :> [session EXCEPT !.expires_at = IF session.auto_renewal
                                                    THEN GetNextExpiration(now) ELSE @])
        @@ sessions

\* release
Release(sessions, id) == MapRemove(sessions, id)

\* clean_up_to
CleanUpTo(sessions, time) ==
    [k \in {x \in DOMAIN sessions : sessions[x].expires_at > time} |-> sessions[k]]

\* Session::from_id: the session found, and the thread spawned if any
FromId(sessions, id, now) ==
    IF id \in DOMAIN sessions
    THEN IF sessions[id].expires_at >= now
         THEN [found |-> sessions[id], spawned |-> <<>>]
         ELSE [found |-> NoSession,
               spawned |-> <<[op |-> "release", id |-> id, origin |-> "from_id"]>>]
    ELSE [found |-> NoSession, spawned |-> <<>>]

SessionIds == { <<"s">>, <<"t">> }

NoSessionProbe == [now |-> 0, id |-> <<>>, found |-> NoSession,
                   origin |-> "none", removed |-> NoSession]

InitSession ==
    /\ store = <<>>
    /\ auth_func = "none"
    /\ history = <<>>
    /\ panicked = FALSE
    /\ pc = "idle"
    /\ raw = NoRaw
    /\ req = NewRequest
    /\ task = <<>>
    /\ chan = NoChan
    /\ probe = NoSessionProbe
    /\ conn = NoConn
    /\ rem = NoRem
    /\ resp = NoResp
    /\ wire = NoWire

\* the clock moves on
Tick ==
    /\ probe.now < MaxNow
    /\ probe' = [probe EXCEPT !.now = @ + 1]
    /\ UNCHANGED <<store, auth_func, history, panicked, pc, raw, req, task, chan, conn, rem,
                   resp, wire>>

\* Session::initialize_new_with_id(id), and Session::initialize_new() when
\* given is empty
NewSessionCall(ids) ==
    /\ \E given \in ids \cup {<<>>} :
          \E id \in IF given = <<>> THEN SessionIds \ DOMAIN store ELSE {given} :
             /\ store' = NewSession(store, id, probe.now)
             /\ history' = IF id \in Range(history) THEN history ELSE Append(history, id)
    /\ UNCHANGED <<auth_func, panicked, pc, raw, req, task, chan, probe, conn, rem, resp,
                   wire>>

\* session.save(), for a session handed out earlier on which expires_at(time)
\* was called or not
SaveCall(ids) ==
    /\ \E id \in ids \cap Range(history), set \in BOOLEAN, time \in 0 .. MaxNow :
          store' = Save(store, Session(id, IF set THEN time ELSE GetNextExpiration(0),
                                       ~set, <<>>), probe.now)
    /\ UNCHANGED <<auth_func, history, panicked, pc, raw, req, task, chan, probe, conn, rem,
                   resp, wire>>

\* Session::from_id(id)
FromIdCall(ids) ==
    /\ \E id \in ids :
          LET r == FromId(store, id, probe.now) IN
          /\ Len(task) + Len(r.spawned) <= MaxThreads
          /\ task' = task \o r.spawned
          /\ probe' = [NoSessionProbe EXCEPT !.now = probe.now, !.id = id, !.found = r.found]
    /\ UNCHANGED <<store, auth_func, history, panicked, pc, raw, req, chan, conn, rem, resp,
                   wire>>

\* Session::release(id)
ReleaseCall(ids) ==
    /\ Len(task) < MaxThreads
    /\ \E id \in ids :
          task' = Append(task, [op |-> "release", id |-> id, origin |-> "release"])
    /\ UNCHANGED <<store, auth_func, history, panicked, pc, raw, req, chan, probe, conn, rem,
                   resp, wire>>

\* Session::clean()
CleanCall ==
    /\ Len(task) < MaxThreads
    /\ task' = Append(task, [op |-> "clean", id |-> <<>>, origin |-> "clean"])
    /\ UNCHANGED <<store, auth_func, history, panicked, pc, raw, req, chan, probe, conn, rem,
                   resp, wire>>

\* one of the spawned threads runs, in any order: release(id) or
\* clean_up_to(Utc::now())
ThreadRun ==
    /\ \E i \in DOMAIN task :
          LET thread == task[i] IN
          /\ store' = IF thread.op = "release" THEN Release(store, thread.id)
                      ELSE CleanUpTo(store, probe.now)
          /\ probe' = [NoSessionProbe EXCEPT !.now = probe.now, !.origin = thread.origin,
                      !.removed = IF thread.op = "release" /\ thread.id \in DOMAIN store
                                  THEN store[thread.id] ELSE NoSession]
          /\ task' = SubSeq(task, 1, i - 1) \o SubSeq(task, i + 1, Len(task))
    /\ UNCHANGED <<auth_func, history, panicked, pc, raw, req, chan, conn, rem, resp, wire>>

NextSession ==
    \/ Tick
    \/ NewSessionCall(SessionIds)
    \/ SaveCall(SessionIds)
    \/ FromIdCall(SessionIds)
    \/ ReleaseCall(SessionIds)
    \/ CleanCall
    \/ ThreadRun

SpecSession == InitSession /\ [][NextSession]_vars

(***************************************************************************)
(* Properties of the session store (specification SpecSession).            *)
(***************************************************************************)
\* C38: the removal that from_id spawns for an expired session never deletes
\* a session that was re-created or saved under the same id in the meantime:
\* the session such a thread removes is expired when the thread runs.
C38_RemovalOnlyOfExpired ==
    (probe.origin = "from_id" /\ probe.removed # NoSession)
        => probe.removed.expires_at < probe.now

(***************************************************************************)
(* The session file (src/src/support/session.rs): serialize, deserialize   *)
(* and the two functions of PersistHandler.  In the specification          *)
(* SpecPersist, store is STORE, raw.words is the content of the file,      *)
(* probe.found is the session that was in STORE when the file was written  *)
(* and probe.now is the clock.                                             *)
(***************************************************************************)
\* the delimiters, each one character
DELEM_LV_1 == "U+0005"
DELEM_LV_2 == "U+0006"
DELEM_LV_3 == "U+0007"
DELEM_LV_4 == "U+0008"

\* DateTime::to_rfc3339 and str::parse::<DateTime<Utc>>, for the times of
\* the clock, which are written with one digit
ToRfc3339(time) == <<DigitChars[time + 1]>>

ParseDateTime(field) ==
    IF Len(field) = 1 /\ \E i \in DOMAIN DigitChars : DigitChars[i] = field[1]
    THEN [ok |-> TRUE, time |-> (CHOOSE i \in DOMAIN DigitChars : DigitChars[i] = field[1]) - 1]
    ELSE [ok |-> FALSE, time |-> 0]

\* bool::to_string
BoolToString(b) == IF b THEN <<"t", "r", "u", "e">> ELSE <<"f", "a", "l", "s", "e">>

\* the loop of Session::serialize over self.store.iter(): the entries in any
\* order
RECURSIVE SerializeStore(_)
SerializeStore(values) ==
    IF DOMAIN values = {} THEN {<<>>}
    ELSE UNION { { key \o <<DELEM_LV_4>> \o values[key] \o <<DELEM_LV_3>> \o rest :
                     rest \in SerializeStore(MapRemove(values, key)) } : key \in DOMAIN values }

\* Session::serialize: the strings it can return
Serialize(session) ==
    IF session.id = <<>> THEN {<<>>}
    ELSE { session.id \o <<DELEM_LV_2>> \o ToRfc3339(session.expires_at) \o <<DELEM_LV_2>>
             \o BoolToString(session.auto_renewal) \o <<DELEM_LV_2>> \o entries :
           entries \in SerializeStore(session.store) }

\* the loop of parse_session_store over the entries
RECURSIVE ParseEntries(_, _)
ParseEntries(values, entries) ==
    IF entries = <<>> THEN values
    ELSE LET entry == Head(entries)
             pos == FindChar(entry, DELEM_LV_4)
             key == SubSeq(entry, 1, pos - 1)
             value == SubSeq(entry, pos, Len(entry))
         IN  ParseEntries(IF pos # 0 /\ key # <<>> THEN MapAdd(values, key, value, FALSE)
                          ELSE values,
                          Tail(entries))

\* parse_session_store
ParseSessionStore(values, field) ==
    IF field = <<>> THEN values
    ELSE ParseEntries(values, SplitChar(Trim(field), DELEM_LV_3))

\* Session::deserialize; NoSession is None
Deserialize(text, default_expires, now) ==
    IF text = <<>> THEN NoSession
    ELSE LET fields == SplitChar(Trim(text), DELEM_LV_2)
             parsed == IF Len(fields) >= 2 THEN ParseDateTime(fields[2])
                       ELSE [ok |-> FALSE, time |-> 0]
         IN  IF fields[1] = <<>> THEN NoSession
             ELSE IF parsed.ok /\ parsed.time < now THEN NoSession
             ELSE Session(fields[1],
                          IF parsed.ok THEN parsed.time ELSE default_expires,
                          Len(fields) >= 3 /\ fields[3] = BoolToString(TRUE),
                          IF Len(fields) >= 4 THEN ParseSessionStore(<<>>, fields[4])
                          ELSE <<>>)

\* the loop of init_from_file over the sessions read from the file
RECURSIVE Recreate(_, _, _)
Recreate(sessions, pieces, now) ==
    IF pieces = <<>> THEN sessions
    ELSE LET session == Deserialize(Head(pieces), GetNextExpiration(now), now)
         IN  Recreate(IF Head(pieces) # <<>> /\ session # NoSession
                      THEN MapAdd(sessions, session.id, session, FALSE) ELSE sessions,
                      Tail(pieces), now)

\* the sessions STORE can hold when the file is written, and the clock
PersistIds == { <<"s">>, <<"s", "1">>, <<" ", "s">> }
PersistTimes == {0, 1, 2}
PersistStores ==
    UNION { [keys -> { <<>>, <<"v">> }] : keys \in SUBSET { <<"k">>, <<"k", "2">> } }

InitPersist ==
    /\ \E id \in PersistIds, time \in PersistTimes, auto \in BOOLEAN,
          values \in PersistStores, now \in PersistTimes :
          /\ store = (id :> Session(id, time, auto, values))
          /\ probe = [NoSessionProbe EXCEPT !.now = now,
                                            !.found = Session(id, time, auto, values)]
    /\ auth_func = "none"
    /\ history = <<>>
    /\ panicked = FALSE
    /\ pc = "setup"
    /\ raw = NoRaw
    /\ req = NewRequest
    /\ task = <<>>
    /\ chan = NoChan
    /\ conn = NoConn
    /\ rem = NoRem
    /\ resp = NoResp
    /\ wire = NoWire

\* Session::save_to_file(path)
SaveToFile ==
    /\ pc = "setup"
    /\ \E id \in DOMAIN store : \E text \in Serialize(store[id]) :
          raw' = [NoRaw EXCEPT !.kind = "file", !.words = text \o <<DELEM_LV_1>>]
    /\ pc' = "saved"
    /\ UNCHANGED <<store, auth_func, history, panicked, req, task, chan, probe, conn, rem,
                   resp, wire>>

\* Session::init_from_file(path), in a process whose STORE is empty
InitFromFile ==
    /\ pc = "saved"
    /\ store' = Recreate(<<>>, SplitChar(raw.words, DELEM_LV_1), probe.now)
    /\ pc' = "loaded"
    /\ UNCHANGED <<auth_func, history, panicked, raw, req, task, chan, probe, conn, rem, resp,
                   wire>>

NextPersist ==
    \/ SaveToFile
    \/ InitFromFile

SpecPersist == InitPersist /\ [][NextPersist]_vars

(***************************************************************************)
(* Properties of the session file (specification SpecPersist).             *)
(***************************************************************************)
\* C39: a session that is not expired is read back from the file as it was
\* written: the same id, expiry, auto_renewal flag and key-to-value store.
C39_RoundTrip ==
    (pc = "loaded" /\ probe.found.expires_at >= probe.now)
        => /\ probe.found.id \in DOMAIN store
           /\ store[probe.found.id] = probe.found

(***************************************************************************)
(* The logger (src/src/support/logger.rs).  In the specifications          *)
(* SpecLogger and SpecLoggerFair, store is TEMP_STORE, chan is the channel *)
(* of the logger (open while SENDER holds the sender), task holds ONCE,    *)
(* the two thread handles and whether a log folder is configured, pc is    *)
(* the position of shutdown, probe is the result of the last log call and  *)
(* history is the messages log has sent.                                   *)
(***************************************************************************)
\* log is called at most MaxLogs times
MaxLogs == 2

NoLogger == [once |-> FALSE, folder |-> FALSE, refresh |-> "none", rx |-> "none"]

InitLogger ==
    /\ store = <<>>
    /\ auth_func = "none"
    /\ history = <<>>
    /\ panicked = FALSE
    /\ pc = "idle"
    /\ raw = NoRaw
    /\ req = NewRequest
    /\ task = NoLogger
    /\ chan = NoChan
    /\ probe = "none"
    /\ conn = NoConn
    /\ rem = NoRem
    /\ resp = NoResp
    /\ wire = NoWire

\* start(period, log_folder_path, meta_info_provider) and initialize: inside
\* ONCE the sender is stored, the refresh thread is spawned if a log folder
\* is configured, and the receiver thread is spawned
LoggerStart ==
    /\ pc \in {"idle", "done"}
    /\ \E folder \in BOOLEAN :
          task' = IF task.once THEN [task EXCEPT !.folder = @ \/ folder]
                  ELSE [once |-> TRUE, folder |-> folder,
                        refresh |-> IF folder THEN "running" ELSE "none", rx |-> "running"]
    /\ chan' = IF task.once THEN chan ELSE [open |-> TRUE, msgs |-> <<>>]
    /\ UNCHANGED <<store, auth_func, history, panicked, pc, raw, req, probe, conn, rem, resp,
                   wire>>

\* log(message, level, client), from any thread
LogCall(messages) ==
    /\ Len(history) < MaxLogs
    /\ \E message \in messages :
          IF chan.open
          THEN /\ chan' = [chan EXCEPT !.msgs = Append(@, message)]
               /\ probe' = "ok"
               /\ history' = Append(history, message)
          ELSE /\ probe' = "err"
               /\ history' = Append(history, "refused")
               /\ UNCHANGED chan
    /\ UNCHANGED <<store, auth_func, panicked, pc, raw, req, task, conn, rem, resp, wire>>

\* the receiver thread: for info in rx { store.push(info) }; the loop ends
\* when the channel is empty and no sender is left
ReceiverStep ==
    /\ task.rx = "running"
    /\ \/ /\ chan.msgs # <<>>
          /\ store' = Append(store, Head(chan.msgs))
          /\ chan' = [chan EXCEPT !.msgs = Tail(@)]
          /\ UNCHANGED task
       \/ /\ chan.msgs = <<>>
          /\ ~chan.open
          /\ task' = [task EXCEPT !.rx = "ended"]
          /\ UNCHANGED <<store, chan>>
    /\ UNCHANGED <<auth_func, history, panicked, pc, raw, req, probe, conn, rem, resp, wire>>

\* dump_to_file: TEMP_STORE is emptied if the dump file could be created
DumpToFile(temp_store, created) == IF created THEN <<>> ELSE temp_store

\* the refresh thread: loop { sleep(period); spawn(dump_to_file) }
RefreshStep ==
    /\ task.refresh = "running"
    /\ \E created \in BOOLEAN : store' = DumpToFile(store, created)
    /\ UNCHANGED <<auth_func, history, panicked, pc, raw, req, task, chan, probe, conn, rem,
                   resp, wire>>

\* shutdown() is called
ShutdownCall ==
    /\ pc = "idle"
    /\ pc' = "stop_refresh"
    /\ UNCHANGED <<store, auth_func, history, panicked, raw, req, task, chan, probe, conn, rem,
                   resp, wire>>

\* stop_refresh: REFRESH_HANDLER.take() and handler.join(), which returns when
\* the refresh thread has ended
StopRefresh ==
    /\ pc = "stop_refresh"
    /\ task.refresh # "running"
    /\ task' = [task EXCEPT !.refresh = "none"]
    /\ pc' = "join_rx"
    /\ UNCHANGED <<store, auth_func, history, panicked, raw, req, chan, probe, conn, rem, resp,
                   wire>>

\* shutdown: config.rx_handler.take() and rx.join(), which returns when the
\* receiver thread has ended
JoinReceiver ==
    /\ pc = "join_rx"
    /\ task.rx # "running"
    /\ task' = [task EXCEPT !.rx = "none"]
    /\ pc' = "take_sender"
    /\ UNCHANGED <<store, auth_func, history, panicked, raw, req, chan, probe, conn, rem, resp,
                   wire>>

\* shutdown: SENDER.take(), the final message is sent and the sender dropped,
\* then dump_to_file
TakeSender ==
    /\ pc = "take_sender"
    /\ chan' = IF chan.open
               THEN [open |-> FALSE, msgs |-> Append(chan.msgs, "Shutting down")]
               ELSE chan
    /\ \E created \in BOOLEAN : store' = DumpToFile(store, created)
    /\ pc' = "done"
    /\ UNCHANGED <<auth_func, history, panicked, raw, req, task, probe, conn, rem, resp, wire>>

LogMessages == {"m", "n"}

NextLogger ==
    \/ LoggerStart
    \/ LogCall(LogMessages)
    \/ ReceiverStep
    \/ RefreshStep
    \/ ShutdownCall
    \/ StopRefresh
    \/ JoinReceiver
    \/ TakeSender

SpecLogger == InitLogger /\ [][NextLogger]_vars

\* every thread that can run does run
SpecLoggerFair ==
    /\ SpecLogger
    /\ WF_vars(ReceiverStep)
    /\ WF_vars(RefreshStep)
    /\ WF_vars(StopRefresh)
    /\ WF_vars(JoinReceiver)
    /\ WF_vars(TakeSender)

(***************************************************************************)
(* Properties of the logger (specification SpecLoggerFair).                *)
(***************************************************************************)
\* C40: after the logger has been started, shutdown() terminates: its two
\* joins return and it goes on to clear the sender.
C40_ShutdownTerminates ==
    (task.once /\ pc = "stop_refresh") ~> (pc = "done" /\ ~chan.open)

============================================================================
